---- MODULE Spec2Model ----
(***************************************************************************)
(* Model of the BEE (Bus Encryption Engine) image protection of spsdk:     *)
(* src/spsdk/image/bee.py.  Byte strings are sequences over 0..255.        *)
(* Python integers that range over the full 32 bits (addresses, lengths,   *)
(* header words) are kept in two 16-bit halves <<hi, lo>>, value           *)
(* hi * 65536 + lo, with hi allowed to be negative or above 65535, so that *)
(* start + length > 0xFFFFFFFF and end - start < 0 are computed exactly.   *)
(* A value that is used more than once is passed as a parameter of a       *)
(* helper operator, which evaluates it once.                               *)
(***************************************************************************)
EXTENDS Integers, Sequences, FiniteSets, TLC

\* ------------------------------------------------------------------------
\* Bounds of the model
\* ------------------------------------------------------------------------
\* most protected_region entries of one configuration (all engines together)
MaxRegions == 2
\* most 1024-byte windows of an input image
MaxBlocks == 2

\* ------------------------------------------------------------------------
\* Python integers of up to 2^33: <<hi, lo>> with 0 <= lo < 65536
\* ------------------------------------------------------------------------
WNorm(h, l) == <<h + (l \div 65536), l % 65536>>

\* a small (below 2^31) integer as a wide one
W(n) == WNorm(0, n)

WAdd(a, b) == WNorm(a[1] + b[1], a[2] + b[2])

WSub(a, b) == WNorm(a[1] - b[1], a[2] - b[2])

WLt(a, b) == a[1] < b[1] \/ (a[1] = b[1] /\ a[2] < b[2])

WLe(a, b) == a = b \/ WLt(a, b)

WMin(a, b) == IF WLt(b, a) THEN b ELSE a

WMax(a, b) == IF WLt(a, b) THEN b ELSE a

\* 0xFFFFFFFF
U32_MAX == <<65535, 65535>>

\* x & 0x3FF (Python: the result is in 0..1023 for negative x too)
AndMask(a, m) == a[2] % (m + 1)

\* x >> 4 of a value 0 <= x < 2^32; the result is below 2^28
Shr4(a) == a[1] * 4096 + (a[2] \div 16)

\* ------------------------------------------------------------------------
\* Byte strings
\* ------------------------------------------------------------------------
\* a byte string given by its bytes, held as a tuple
Bytes(f) == f \o <<>>

Zeros(n) == Bytes([i \in 1..n |-> 0])

Reverse(s) == Bytes([i \in 1..Len(s) |-> s[Len(s) + 1 - i]])

\* data[a:b] of Python (0-based, end exclusive, clipped to the data)
Slice(s, a, b) ==
    IF a >= Len(s) \/ a >= b THEN <<>>
    ELSE SubSeq(s, a + 1, IF b > Len(s) THEN Len(s) ELSE b)

\* struct.pack("<I", v), 0 <= v <= 0xFFFFFFFF
PackU32(a) == <<a[2] % 256, a[2] \div 256, a[1] % 256, a[1] \div 256>>

\* struct.unpack_from("<I", data, offset)
UnpackU32(s, off) == <<s[off + 3] + 256 * s[off + 4], s[off + 1] + 256 * s[off + 2]>>

\* struct.unpack_from(">I", data) as a wide integer
UnpackBE32(s, off) == <<s[off + 1] * 256 + s[off + 2], s[off + 3] * 256 + s[off + 4]>>

\* the big-endian 4 bytes of a wide integer 0 <= v <= 0xFFFFFFFF
PackBE32W(a) == <<a[1] \div 256, a[1] % 256, a[2] \div 256, a[2] % 256>>

\* spsdk.utils.misc.extend_block(data, length): zero padding up to length
extend_block(data, length) == data \o Zeros(length - Len(data))

\* spsdk.utils.misc.align_block_fill_random(data, alignment): padding up to a
\* multiple of the alignment with random bytes; fill is the byte drawn
align_block_fill_random(data, alignment, fill) ==
    data \o [i \in 1..((alignment - (Len(data) % alignment)) % alignment) |-> fill]

\* results of operations that may raise: the value, or the exception raised
\* (type is the exception class, msg its message)
Ok(v) == [ok |-> TRUE, type |-> "", msg |-> "", val |-> v]
Raise(t, m) == [ok |-> FALSE, type |-> t, msg |-> m, val |-> <<>>]

\* validate() then return: msg is the message validate raises, "" for none
Checked(v, msg) == IF msg = "" THEN Ok(v) ELSE Raise("SPSDKError", msg)


\* ---------------------------------------------------------------------------------
\* AES-128 (FIPS-197), the block cipher of Crypto.Cipher.AES and of the crypto backend
\* ---------------------------------------------------------------------------------

\* bit k of the exclusive or of two bytes, in its place
XorBit(a, b, k) == (((a \div k) + (b \div k)) % 2) * k

\* the exclusive or of two bytes, tabulated: XorTable[a + 1][b + 1]
XorTable ==
    Bytes([a \in 1..256 |->
        Bytes([b \in 1..256 |->
            XorBit(a - 1, b - 1, 1) + XorBit(a - 1, b - 1, 2) + XorBit(a - 1, b - 1, 4)
            + XorBit(a - 1, b - 1, 8) + XorBit(a - 1, b - 1, 16) + XorBit(a - 1, b - 1, 32)
            + XorBit(a - 1, b - 1, 64) + XorBit(a - 1, b - 1, 128)])])

Xor(a, b) == XorTable[a + 1][b + 1]

XorBytes(x, y) == Bytes([i \in 1..Len(x) |-> XorTable[x[i] + 1][y[i] + 1]])

\* the S-box (FIPS-197 figure 7): SBox[a + 1]
SBox ==
  <<99, 124, 119, 123, 242, 107, 111, 197, 48, 1, 103, 43, 254, 215, 171, 118,
    202, 130, 201, 125, 250, 89, 71, 240, 173, 212, 162, 175, 156, 164, 114, 192,
    183, 253, 147, 38, 54, 63, 247, 204, 52, 165, 229, 241, 113, 216, 49, 21,
    4, 199, 35, 195, 24, 150, 5, 154, 7, 18, 128, 226, 235, 39, 178, 117,
    9, 131, 44, 26, 27, 110, 90, 160, 82, 59, 214, 179, 41, 227, 47, 132,
    83, 209, 0, 237, 32, 252, 177, 91, 106, 203, 190, 57, 74, 76, 88, 207,
    208, 239, 170, 251, 67, 77, 51, 133, 69, 249, 2, 127, 80, 60, 159, 168,
    81, 163, 64, 143, 146, 157, 56, 245, 188, 182, 218, 33, 16, 255, 243, 210,
    205, 12, 19, 236, 95, 151, 68, 23, 196, 167, 126, 61, 100, 93, 25, 115,
    96, 129, 79, 220, 34, 42, 144, 136, 70, 238, 184, 20, 222, 94, 11, 219,
    224, 50, 58, 10, 73, 6, 36, 92, 194, 211, 172, 98, 145, 149, 228, 121,
    231, 200, 55, 109, 141, 213, 78, 169, 108, 86, 244, 234, 101, 122, 174, 8,
    186, 120, 37, 46, 28, 166, 180, 198, 232, 221, 116, 31, 75, 189, 139, 138,
    112, 62, 181, 102, 72, 3, 246, 14, 97, 53, 87, 185, 134, 193, 29, 158,
    225, 248, 152, 17, 105, 217, 142, 148, 155, 30, 135, 233, 206, 85, 40, 223,
    140, 161, 137, 13, 191, 230, 66, 104, 65, 153, 45, 15, 176, 84, 187, 22>>
\* the inverse S-box (figure 14)
InvSBox ==
  <<82, 9, 106, 213, 48, 54, 165, 56, 191, 64, 163, 158, 129, 243, 215, 251,
    124, 227, 57, 130, 155, 47, 255, 135, 52, 142, 67, 68, 196, 222, 233, 203,
    84, 123, 148, 50, 166, 194, 35, 61, 238, 76, 149, 11, 66, 250, 195, 78,
    8, 46, 161, 102, 40, 217, 36, 178, 118, 91, 162, 73, 109, 139, 209, 37,
    114, 248, 246, 100, 134, 104, 152, 22, 212, 164, 92, 204, 93, 101, 182, 146,
    108, 112, 72, 80, 253, 237, 185, 218, 94, 21, 70, 87, 167, 141, 157, 132,
    144, 216, 171, 0, 140, 188, 211, 10, 247, 228, 88, 5, 184, 179, 69, 6,
    208, 44, 30, 143, 202, 63, 15, 2, 193, 175, 189, 3, 1, 19, 138, 107,
    58, 145, 17, 65, 79, 103, 220, 234, 151, 242, 207, 206, 240, 180, 230, 115,
    150, 172, 116, 34, 231, 173, 53, 133, 226, 249, 55, 232, 28, 117, 223, 110,
    71, 241, 26, 113, 29, 41, 197, 137, 111, 183, 98, 14, 170, 24, 190, 27,
    252, 86, 62, 75, 198, 210, 121, 32, 154, 219, 192, 254, 120, 205, 90, 244,
    31, 221, 168, 51, 136, 7, 199, 49, 177, 18, 16, 89, 39, 128, 236, 95,
    96, 81, 127, 169, 25, 181, 74, 13, 45, 229, 122, 159, 147, 201, 156, 239,
    160, 224, 59, 77, 174, 42, 245, 176, 200, 235, 187, 60, 131, 83, 153, 97,
    23, 43, 4, 126, 186, 119, 214, 38, 225, 105, 20, 99, 85, 33, 12, 125>>

\* multiplication by x in GF(2^8) modulo x^8 + x^4 + x^3 + x + 1
Xtime(a) == IF a < 128 THEN 2 * a ELSE Xor((2 * a) % 256, 27)

\* multiplication by 2, 3, 9, 11, 13 and 14 in GF(2^8), tabulated
Mul2 == Bytes([a \in 1..256 |-> Xtime(a - 1)])
Mul3 == Bytes([a \in 1..256 |-> Xor(Mul2[a], a - 1)])
Mul4 == Bytes([a \in 1..256 |-> Mul2[Mul2[a] + 1]])
Mul8 == Bytes([a \in 1..256 |-> Mul2[Mul4[a] + 1]])
Mul9 == Bytes([a \in 1..256 |-> Xor(Mul8[a], a - 1)])
Mul11 == Bytes([a \in 1..256 |-> Xor(Mul9[a], Mul2[a])])
Mul13 == Bytes([a \in 1..256 |-> Xor(Mul9[a], Mul4[a])])
Mul14 == Bytes([a \in 1..256 |-> Xor(Xor(Mul8[a], Mul4[a]), Mul2[a])])

\* The state is 16 bytes, column by column: byte i is row (i - 1) % 4 of column
\* (i - 1) \div 4. ShiftRows rotates row r left by r columns: byte i comes from
\* ShiftFrom[i], and in InvShiftRows from InvShiftFrom[i].
ShiftFrom == Bytes([i \in 1..16 |-> ((i - 1 + 4 * ((i - 1) % 4)) % 16) + 1])

InvShiftFrom == Bytes([i \in 1..16 |-> ((i - 1 + 12 * ((i - 1) % 4)) % 16) + 1])

\* the place of the byte k rows below byte i in its column, wrapping
InColumn == Bytes([i \in 1..16 |->
                Bytes([k \in 1..4 |-> 4 * ((i - 1) \div 4) + ((i - 1 + k - 1) % 4) + 1])])

\* SubBytes, then ShiftRows
SubShift(s) == Bytes([i \in 1..16 |-> SBox[s[ShiftFrom[i]] + 1]])

\* InvShiftRows, then InvSubBytes
InvShiftSub(s) == Bytes([i \in 1..16 |-> InvSBox[s[InvShiftFrom[i]] + 1]])

\* MixColumns, then AddRoundKey
MixAdd(s, k) ==
    Bytes([i \in 1..16 |->
        Xor(Xor(Xor(Mul2[s[InColumn[i][1]] + 1], Mul3[s[InColumn[i][2]] + 1]),
                Xor(s[InColumn[i][3]], s[InColumn[i][4]])),
            k[i])])

InvMixColumns(s) ==
    Bytes([i \in 1..16 |->
        Xor(Xor(Mul14[s[InColumn[i][1]] + 1], Mul11[s[InColumn[i][2]] + 1]),
            Xor(Mul13[s[InColumn[i][3]] + 1], Mul9[s[InColumn[i][4]] + 1]))])

AddRoundKey(s, k) == Bytes([i \in 1..16 |-> Xor(s[i], k[i])])

\* AddRoundKey on the input of Cipher or InvCipher
FirstRound(s, k) == CHOOSE r \in { AddRoundKey(t, k) : t \in {s} } : TRUE

\* one round of Cipher: SubBytes, ShiftRows, MixColumns, AddRoundKey
Round(s, k) == CHOOSE r \in { MixAdd(u, k) : u \in { SubShift(t) : t \in {s} } } : TRUE

\* the last round of Cipher: SubBytes, ShiftRows, AddRoundKey
LastRound(s, k) ==
    CHOOSE r \in { AddRoundKey(u, k) : u \in { SubShift(t) : t \in {s} } } : TRUE

\* one round of InvCipher: InvShiftRows, InvSubBytes, AddRoundKey, InvMixColumns
InvRound(s, k) ==
    CHOOSE r \in { InvMixColumns(v) :
                     v \in { AddRoundKey(u, k) : u \in { InvShiftSub(t) : t \in {s} } } } :
        TRUE

\* the last round of InvCipher: InvShiftRows, InvSubBytes, AddRoundKey
InvLastRound(s, k) ==
    CHOOSE r \in { AddRoundKey(u, k) : u \in { InvShiftSub(t) : t \in {s} } } : TRUE

\* the round constants
Rcon == <<1, 2, 4, 8, 16, 32, 64, 128, 27, 54>>

\* the word after word prev of the next round key: prev xor the word of k at that
\* place
NextWord(prev, k, at) == Bytes([j \in 1..4 |-> Xor(prev[j], k[at + j])])

\* the next round key from round key k and its first word w0
NextRoundKeyFrom(k, w0) ==
    CHOOSE n \in { w0 \o w1 \o w2 \o NextWord(w2, k, 12) :
                     w1 \in {NextWord(w0, k, 4)},
                     w2 \in {NextWord(NextWord(w0, k, 4), k, 8)} } :
        TRUE

\* the next round key: its first word is SubWord(RotWord(last word of k)) xor Rcon
\* xor the first word of k
NextRoundKey(k, rc) ==
    NextRoundKeyFrom(k, <<Xor(k[1], Xor(SBox[k[14] + 1], rc)), Xor(k[2], SBox[k[15] + 1]),
                          Xor(k[3], SBox[k[16] + 1]), Xor(k[4], SBox[k[13] + 1])>>)

\* the round keys ks with the next one added
Expand(ks, r) == CHOOSE all \in { Append(w, NextRoundKey(w[r], Rcon[r])) : w \in {ks} } : TRUE

\* KeyExpansion of a 16-byte key: the eleven round keys
KeyExpansion(key) ==
    Expand(Expand(Expand(Expand(Expand(Expand(Expand(Expand(Expand(Expand(
        <<key>>, 1), 2), 3), 4), 5), 6), 7), 8), 9), 10)

\* Cipher (FIPS-197 5.1) with the round keys w
Cipher(w, blk) ==
    LastRound(
        Round(Round(Round(Round(Round(Round(Round(Round(Round(
            FirstRound(blk, w[1]),
            w[2]), w[3]), w[4]), w[5]), w[6]), w[7]), w[8]), w[9]), w[10]), w[11])

\* InvCipher (FIPS-197 5.3) with the round keys w
InvCipher(w, blk) ==
    InvLastRound(
        InvRound(InvRound(InvRound(InvRound(InvRound(InvRound(InvRound(InvRound(InvRound(
            FirstRound(blk, w[11]),
            w[10]), w[9]), w[8]), w[7]), w[6]), w[5]), w[4]), w[3]), w[2]), w[1])

\* AES.new(key, ...) on one block
AesEncryptBlock(key, blk) == CHOOSE c \in { Cipher(w, blk) : w \in {KeyExpansion(key)} } : TRUE

AesDecryptBlock(key, blk) ==
    CHOOSE c \in { InvCipher(w, blk) : w \in {KeyExpansion(key)} } : TRUE

\* the blocks of a byte string, concatenated
RECURSIVE Concat(_, _)
Concat(blocks, i) ==
    IF i > Len(blocks) THEN <<>> ELSE blocks[i] \o Concat(blocks, i + 1)

\* block b (from 1) of a byte string
Block(data, b) == Slice(data, (b - 1) * 16, b * 16)

\* AES.new(key, AES.MODE_ECB).encrypt(data), len(data) a multiple of 16; the key
\* is expanded once
AesEcbEncrypt(key, data) ==
    CHOOSE c \in { Concat(blocks, 1) :
                     blocks \in { Bytes([b \in 1..(Len(d) \div 16) |-> Cipher(w, Block(d, b))]) :
                                    w \in {KeyExpansion(key)}, d \in {data} } } : TRUE

\* AES.new(key, AES.MODE_ECB).decrypt(data)
AesEcbDecrypt(key, data) ==
    CHOOSE c \in { Concat(blocks, 1) :
                     blocks \in { Bytes([b \in 1..(Len(d) \div 16) |-> InvCipher(w, Block(d, b))]) :
                                    w \in {KeyExpansion(key)}, d \in {data} } } : TRUE

\* AES.new(key, AES.MODE_CBC, iv).encrypt(data), from block b on: w is the key
\* schedule and c the ciphertext block before block b (the iv before the first)
RECURSIVE AesCbcEncryptRest(_, _, _, _)
AesCbcEncryptRest(w, c, data, b) ==
    IF b > Len(data) \div 16 THEN <<>>
    ELSE CHOOSE r \in { e \o AesCbcEncryptRest(w, e, data, b + 1) :
                          e \in { Cipher(w, x) : x \in {XorBytes(Block(data, b), c)} } } : TRUE

AesCbcEncrypt(key, iv, data) ==
    CHOOSE c \in { AesCbcEncryptRest(w, v, d, 1) :
                     w \in {KeyExpansion(key)}, v \in {iv}, d \in {data} } : TRUE

\* AES.new(key, AES.MODE_CBC, iv).decrypt(data)
AesCbcDecrypt(key, iv, data) ==
    CHOOSE c \in { Concat(blocks, 1) :
                     blocks \in { Bytes([b \in 1..(Len(d) \div 16) |->
                                      XorBytes(InvCipher(w, Block(d, b)),
                                               IF b = 1 THEN v ELSE Block(d, b - 1))]) :
                                    w \in {KeyExpansion(key)}, v \in {iv}, d \in {data} } } : TRUE

\* the keystream of AES-CTR: block j is the encryption of the nonce with j
\* added to its low 32 bits
KeyStreamComputed(key, nonce, nblocks) ==
    CHOOSE ks \in { Bytes([j \in 1..nblocks |->
                        Cipher(w, Slice(nv, 0, 12)
                                  \o PackBE32W(WAdd(UnpackBE32(nv, 12), W(j - 1))))]) :
                      w \in {KeyExpansion(key)}, nv \in {nonce} } : TRUE

\* The keys and the counters of the input configurations, and the keystream
\* blocks of each pair of them for the counter values in TableCounters,
\* computed once: KeyStreamTable[k][p][c + 1] is the encryption under
\* TableKeys[k] of TablePrefixes[p] followed by the 32-bit counter c.
Key0 == Bytes([i \in 1..16 |-> i - 1])
Key1 == Bytes([i \in 1..16 |-> (17 * i) % 256])
Counter0 == Bytes([i \in 1..16 |-> IF i <= 12 THEN i ELSE 0])
Counter1 == Bytes([i \in 1..16 |-> IF i <= 12 THEN 255 - i ELSE 0])

TableKeys == <<Key0, Key1>>
TablePrefixes == <<Slice(Counter0, 0, 12), Slice(Counter1, 0, 12)>>
TableCounters == 0..639
TableSchedules == Bytes([k \in 1..Len(TableKeys) |-> KeyExpansion(TableKeys[k])])

KeyStreamTable ==
    Bytes([k \in 1..Len(TableKeys) |->
        Bytes([p \in 1..Len(TablePrefixes) |->
            Bytes([c \in 1..Cardinality(TableCounters) |->
                Cipher(TableSchedules[k], TablePrefixes[p] \o PackBE32W(W(c - 1)))])])])

\* the place of x in the sequence s, 0 when it is not there
IndexIn(s, x) == IF \E i \in 1..Len(s) : s[i] = x THEN CHOOSE i \in 1..Len(s) : s[i] = x ELSE 0

\* the keystream read from the table: c is the counter in the nonce
KeyStreamTabulated(k, p, c, nblocks) == SubSeq(KeyStreamTable[k][p], c + 1, c + nblocks)

\* the keystream, from the table when the key, the nonce and the counters
\* are in it
KeyStreamAt(key, nonce, k, p, c, nblocks) ==
    IF k > 0 /\ p > 0 /\ c[1] = 0 /\ c[2] + nblocks <= Len(KeyStreamTable[k][p])
    THEN KeyStreamTabulated(k, p, c[2], nblocks)
    ELSE KeyStreamComputed(key, nonce, nblocks)

KeyStream(key, nonce, nblocks) ==
    CHOOSE ks \in { KeyStreamAt(kv, nv, IndexIn(TableKeys, kv),
                                IndexIn(TablePrefixes, Slice(nv, 0, 12)),
                                UnpackBE32(nv, 12), nblocks) :
                      kv \in {key}, nv \in {nonce} } : TRUE

XorKeyStream(data, ks) ==
    Bytes([i \in 1..Len(data) |->
        XorTable[data[i] + 1][ks[((i - 1) \div 16) + 1][((i - 1) % 16) + 1] + 1]])

\* crypto_backend().aes_ctr_encrypt(key, data, nonce)
AesCtrEncrypt(key, data, nonce) ==
    CHOOSE c \in { XorKeyStream(d, ks) :
                     d \in {data},
                     ks \in {KeyStream(key, nonce, (Len(data) + 15) \div 16)} } : TRUE

\* ------------------------------------------------------------------------
\* Constants of bee.py
\* ------------------------------------------------------------------------
\* maximal size of encrypted block in bytes
BEE_ENCR_BLOCK_SIZE == 1024
\* mask of the bits in the address, that must be zero
ENCR_BLOCK_ADDR_MASK == BEE_ENCR_BLOCK_SIZE - 1
\* BeeProtectRegionBlockAesMode
AesModeECB == W(0)
AesModeCTR == W(1)
\* BeeProtectRegionBlock.TAGL, TAGH, VERSION
TAGL == 1598505300
TAGH == 1380206661
VERSION == 1442906112
\* BeeProtectRegionBlock.FAC_REGIONS, SIZE
FAC_REGIONS == 4
PRDB_SIZE == 256
\* calcsize("<3I20s"), calcsize("<8I16s32s"), calcsize("16s16s")
FAC_SIZE == 32
PRDB_HEAD_SIZE == 80
KIB_SIZE == 32
\* BeeKIB._KEY_LEN
KEY_LEN == 16
\* BeeRegionHeader.PRDB_OFFSET, SIZE
PRDB_OFFSET == 128
HEADER_SIZE == 512

\* ------------------------------------------------------------------------
\* BeeFacRegion: [start_addr, length, protected_level], wide integers
\* ------------------------------------------------------------------------
FacEnd(fac) == WAdd(fac.start_addr, fac.length)

\* validate rejecting a region when either of start and length is
\* off the 1 KB grid
FacValidateEitherUnaligned(fac) ==
    IF AndMask(fac.start_addr, ENCR_BLOCK_ADDR_MASK) # 0
       \/ AndMask(fac.length, ENCR_BLOCK_ADDR_MASK) # 0
    THEN "Invalid configuration of the instance"
    ELSE IF WLt(fac.protected_level, W(0)) \/ WLt(W(3), fac.protected_level)
    THEN "Invalid protected level"
    ELSE IF WLt(fac.start_addr, W(0)) \/ WLt(U32_MAX, FacEnd(fac))
            \/ WLe(FacEnd(fac), fac.start_addr)
    THEN "Invalid start/end address"
    ELSE ""

\* BeeFacRegion.validate: the message of the SPSDKError raised, "" for none
FacValidate(fac) ==
    IF AndMask(fac.start_addr, ENCR_BLOCK_ADDR_MASK) # 0
       /\ AndMask(fac.length, ENCR_BLOCK_ADDR_MASK) # 0
    THEN "Invalid configuration of the instance"
    ELSE IF WLt(fac.protected_level, W(0)) \/ WLt(W(3), fac.protected_level)
    THEN "Invalid protected level"
    ELSE IF WLt(fac.start_addr, W(0)) \/ WLt(U32_MAX, FacEnd(fac))
            \/ WLe(FacEnd(fac), fac.start_addr)
    THEN "Invalid start/end address"
    ELSE ""

\* BeeFacRegion.__init__ once the fields are set: validate
FacNew(fac) == Checked(fac, FacValidate(fac))

\* BeeFacRegion(start, length, protected_level)
BeeFacRegion(start, length, protected_level) ==
    FacNew([start_addr |-> start, length |-> length,
            protected_level |-> protected_level])

\* BeeFacRegion.export
FacExport(fac) ==
    Checked(PackU32(fac.start_addr) \o PackU32(FacEnd(fac))
            \o PackU32(fac.protected_level) \o Zeros(20),
            FacValidate(fac))

\* BeeFacRegion.parse with the end address taken for the length
FacParseNoLength(data, offset) ==
    IF Len(data) - offset < FAC_SIZE
    THEN Raise("SPSDKError", "Insufficient size of the data")
    ELSE IF Slice(data, offset + 12, offset + 32) # Zeros(20)
    THEN Raise("SPSDKError", "Reserved area is non-zero")
    ELSE BeeFacRegion(UnpackU32(data, offset), UnpackU32(data, offset + 4),
                      UnpackU32(data, offset + 8))

\* BeeFacRegion.parse
FacParse(data, offset) ==
    IF Len(data) - offset < FAC_SIZE
    THEN Raise("SPSDKError", "Insufficient size of the data")
    ELSE IF Slice(data, offset + 12, offset + 32) # Zeros(20)
    THEN Raise("SPSDKError", "Reserved area is non-zero")
    ELSE BeeFacRegion(UnpackU32(data, offset),
                      WSub(UnpackU32(data, offset + 4), UnpackU32(data, offset)),
                      UnpackU32(data, offset + 8))

\* ------------------------------------------------------------------------
\* BeeKIB: [kib_key, kib_iv]
\* ------------------------------------------------------------------------
\* BeeKIB.validate
KibValidate(kib) ==
    IF Len(kib.kib_key) # KEY_LEN THEN "Invalid length of kib key"
    ELSE IF Len(kib.kib_iv) # KEY_LEN THEN "Invalid length of kib iv"
    ELSE ""

\* BeeKIB.export
KibExport(kib) == Checked(kib.kib_key \o kib.kib_iv, KibValidate(kib))

\* BeeKIB.parse once the fields are unpacked: validate
KibParsed(kib) == Checked(kib, KibValidate(kib))

\* BeeKIB.parse
KibParse(data, offset) ==
    IF Len(data) - offset < KIB_SIZE
    THEN Raise("SPSDKError", "Insufficient size of the data")
    ELSE KibParsed([kib_key |-> Slice(data, offset, offset + 16),
                    kib_iv |-> Slice(data, offset + 16, offset + 32)])

\* ------------------------------------------------------------------------
\* BeeProtectRegionBlock (PRDB):
\* [start_addr, end_addr, mode, lock_options, counter, fac_regions]
\* ------------------------------------------------------------------------
\* BeeProtectRegionBlock(encr_mode, lock_options, counter)
BeeProtectRegionBlock(encr_mode, lock_options, counter) ==
    [start_addr |-> W(0), end_addr |-> U32_MAX, mode |-> encr_mode,
     lock_options |-> lock_options, counter |-> counter, fac_regions |-> <<>>]

\* lines 239-243: the least start address from the i-th region on
RECURSIVE MinStart(_, _, _)
MinStart(facs, i, acc) ==
    IF i > Len(facs) THEN acc ELSE MinStart(facs, i + 1, WMin(acc, facs[i].start_addr))

\* lines 240-243: the greatest end address from the i-th region on
RECURSIVE MaxEnd(_, _, _)
MaxEnd(facs, i, acc) ==
    IF i > Len(facs) THEN acc ELSE MaxEnd(facs, i + 1, WMax(acc, FacEnd(facs[i])))

\* BeeProtectRegionBlock.update
PrdbUpdate(prdb) ==
    [prdb EXCEPT
        !.start_addr = MinStart(prdb.fac_regions, 1,
                                IF Len(prdb.fac_regions) = 0 THEN W(0) ELSE U32_MAX),
        !.end_addr = MaxEnd(prdb.fac_regions, 1, W(0))]

\* add_fac leaving the start and end address as they were
PrdbAddFacNoUpdate(prdb, fac) ==
    [prdb EXCEPT !.fac_regions = Append(@, fac)]

\* BeeProtectRegionBlock.add_fac
PrdbAddFac(prdb, fac) ==
    PrdbUpdate([prdb EXCEPT !.fac_regions = Append(@, fac)])

\* lines 282-283: the first message a region's validate raises, "" for none
RECURSIVE FacsValidate(_, _)
FacsValidate(facs, i) ==
    IF i > Len(facs) THEN ""
    ELSE IF FacValidate(facs[i]) # "" THEN FacValidate(facs[i])
    ELSE FacsValidate(facs, i + 1)

\* BeeProtectRegionBlock.validate: the message of the SPSDKError, "" for none
PrdbValidate(prdb) ==
    IF WLt(prdb.start_addr, W(0)) \/ WLt(U32_MAX, prdb.start_addr)
    THEN "Invalid start address"
    ELSE IF WLt(prdb.end_addr, prdb.start_addr) \/ WLt(U32_MAX, prdb.end_addr)
    THEN "Invalid start/end address"
    ELSE IF prdb.mode # AesModeCTR
    THEN "Only AES/CTR encryption mode supported now"
    ELSE IF Len(prdb.counter) # 16
    THEN "Invalid counter"
    ELSE IF Slice(prdb.counter, 12, 16) # Zeros(4)
    THEN "last four bytes must be zero"
    ELSE IF Len(prdb.fac_regions) <= 0 \/ Len(prdb.fac_regions) > FAC_REGIONS
    THEN "Invalid FAC regions"
    ELSE FacsValidate(prdb.fac_regions, 1)

\* lines 301-302: the regions from the i-th on, exported
RECURSIVE FacsExport(_, _)
FacsExport(facs, i) ==
    IF i > Len(facs) THEN <<>> ELSE FacExport(facs[i]).val \o FacsExport(facs, i + 1)

\* lines 288-300 with the counter packed as it is in memory
PrdbPackPlainCounter(prdb) ==
    PackU32(W(TAGL)) \o PackU32(W(TAGH)) \o PackU32(W(VERSION))
    \o PackU32(W(Len(prdb.fac_regions))) \o PackU32(prdb.start_addr)
    \o PackU32(prdb.end_addr) \o PackU32(prdb.mode) \o PackU32(prdb.lock_options)
    \o prdb.counter \o Zeros(32)

\* lines 288-300: struct.pack of the header fields, the counter reversed
PrdbPack(prdb) ==
    PackU32(W(TAGL)) \o PackU32(W(TAGH)) \o PackU32(W(VERSION))
    \o PackU32(W(Len(prdb.fac_regions))) \o PackU32(prdb.start_addr)
    \o PackU32(prdb.end_addr) \o PackU32(prdb.mode) \o PackU32(prdb.lock_options)
    \o Reverse(prdb.counter) \o Zeros(32)

\* BeeProtectRegionBlock.export after update(): validate, pack
PrdbExportUpdated(prdb) ==
    Checked(extend_block(PrdbPack(prdb) \o FacsExport(prdb.fac_regions, 1), PRDB_SIZE),
            PrdbValidate(prdb))

\* BeeProtectRegionBlock.export; update() leaves the PRDB as PrdbUpdate(prdb)
PrdbExport(prdb) == PrdbExportUpdated(PrdbUpdate(prdb))

\* lines 340-343: count more regions parsed from the data at offset
RECURSIVE PrdbParseFacs(_, _, _, _)
RECURSIVE PrdbParseFac(_, _, _, _, _)
PrdbParseFac(prdb, fac, data, offset, count) ==
    IF ~fac.ok THEN fac
    ELSE PrdbParseFacs(PrdbAddFac(prdb, fac.val), data, offset + FAC_SIZE, count - 1)

PrdbParseFacs(prdb, data, offset, count) ==
    IF count = 0 THEN Ok(prdb)
    ELSE PrdbParseFac(prdb, FacParse(data, offset), data, offset, count)

\* line 336: counter[::-1]
CounterFromWire(counter) == Reverse(counter)

\* lines 336-338: the PRDB made of the unpacked header fields
PrdbParseHead(data, offset) ==
    [BeeProtectRegionBlock(UnpackU32(data, offset + 24), UnpackU32(data, offset + 28),
                           CounterFromWire(Slice(data, offset + 32, offset + 48)))
     EXCEPT !.start_addr = UnpackU32(data, offset + 16),
            !.end_addr = UnpackU32(data, offset + 20)]

\* range(fac_count): the loop stops at the first region that does not fit
\* the data, so a count above 65535 runs as 65535 does
FacCount(fac_count) == IF fac_count[1] > 0 THEN 65535 ELSE fac_count[2]

\* the parsed PRDB returned without validate()
PrdbParsedUnchecked(parsed) == parsed

\* lines 344-345: validate, return
PrdbParsed(parsed) ==
    IF ~parsed.ok THEN parsed ELSE Checked(parsed.val, PrdbValidate(parsed.val))

\* parse that does not look at the reserved area
PrdbParseAnyReserved(data, offset) ==
    IF Len(data) - offset < PRDB_SIZE
    THEN Raise("SPSDKError", "Insufficient size of the data")
    ELSE IF UnpackU32(data, offset) # W(TAGL) \/ UnpackU32(data, offset + 4) # W(TAGH)
    THEN Raise("SPSDKError", "Invalid tag or unsupported version")
    ELSE IF UnpackU32(data, offset + 8) # W(VERSION)
    THEN Raise("SPSDKError", "Unsupported version")
    ELSE PrdbParsed(PrdbParseFacs(PrdbParseHead(data, offset), data,
                                  offset + PRDB_HEAD_SIZE,
                                  FacCount(UnpackU32(data, offset + 12))))

\* BeeProtectRegionBlock.parse
PrdbParse(data, offset) ==
    IF Len(data) - offset < PRDB_SIZE
    THEN Raise("SPSDKError", "Insufficient size of the data")
    ELSE IF UnpackU32(data, offset) # W(TAGL) \/ UnpackU32(data, offset + 4) # W(TAGH)
    THEN Raise("SPSDKError", "Invalid tag or unsupported version")
    ELSE IF UnpackU32(data, offset + 8) # W(VERSION)
    THEN Raise("SPSDKError", "Unsupported version")
    ELSE IF Slice(data, offset + 48, offset + 80) # Zeros(32)
    THEN Raise("SPSDKError", "Reserved area is non-zero")
    ELSE PrdbParsed(PrdbParseFacs(PrdbParseHead(data, offset), data,
                                  offset + PRDB_HEAD_SIZE,
                                  FacCount(UnpackU32(data, offset + 12))))

\* is_inside_region taking every address for one inside
PrdbIsInsideAlways(prdb, start_addr) == TRUE

\* BeeProtectRegionBlock.is_inside_region
PrdbIsInsideRegion(prdb, start_addr) ==
    WLe(prdb.start_addr, start_addr) /\ WLt(start_addr, prdb.end_addr)

\* the region test with the end address included
FacContainsClosed(fac, start_addr) ==
    WLe(fac.start_addr, start_addr) /\ WLe(start_addr, FacEnd(fac))

\* fac.start_addr <= start_addr < fac.end_addr
FacContains(fac, start_addr) ==
    WLe(fac.start_addr, start_addr) /\ WLt(start_addr, FacEnd(fac))

\* spsdk.utils.crypto.Counter(nonce, ctr_value, "big").value: the nonce with
\* ctr_value added to its last four bytes, read as a big-endian number
CounterValue(nonce, ctr_value) ==
    Slice(nonce, 0, 12) \o PackBE32W(WAdd(UnpackBE32(nonce, 12), W(ctr_value)))

\* lines 373-374: the index of the first region from the i-th on that
\* holds the address, 0 for none
RECURSIVE FirstContaining(_, _, _)
FirstContaining(facs, start_addr, i) ==
    IF i > Len(facs) THEN 0
    ELSE IF FacContains(facs[i], start_addr) THEN i
    ELSE FirstContaining(facs, start_addr, i + 1)

\* the block is in the region fac, its end not compared with the region's
EncryptInFacNoRange(prdb, key, start_addr, data, fill, fac) ==
    Ok(AesCtrEncrypt(key, align_block_fill_random(data, 16, fill),
                     CounterValue(prdb.counter, Shr4(start_addr))))

\* encryption with the random padding put before the data
EncryptInFacPadFirst(prdb, key, start_addr, data, fill, fac) ==
    IF WLt(FacEnd(fac), WAdd(start_addr, W(Len(data))))
    THEN Raise("SPSDKError", "Invalid range of region")
    ELSE Ok(AesCtrEncrypt(key, [i \in 1..((16 - (Len(data) % 16)) % 16) |-> fill] \o data,
                          CounterValue(prdb.counter, Shr4(start_addr))))

\* the range check refusing a block that ends at the end of the region
EncryptInFacEndRefused(prdb, key, start_addr, data, fill, fac) ==
    IF WLe(FacEnd(fac), WAdd(start_addr, W(Len(data))))
    THEN Raise("SPSDKError", "Invalid range of region")
    ELSE Ok(AesCtrEncrypt(key, align_block_fill_random(data, 16, fill),
                          CounterValue(prdb.counter, Shr4(start_addr))))

\* the block padded to a multiple of 32 bytes
EncryptInFacAlign32(prdb, key, start_addr, data, fill, fac) ==
    IF WLt(FacEnd(fac), WAdd(start_addr, W(Len(data))))
    THEN Raise("SPSDKError", "Invalid range of region")
    ELSE Ok(AesCtrEncrypt(key, align_block_fill_random(data, 32, fill),
                          CounterValue(prdb.counter, Shr4(start_addr))))

\* lines 375-387: the block is in the region fac
EncryptInFac(prdb, key, start_addr, data, fill, fac) ==
    IF WLt(FacEnd(fac), WAdd(start_addr, W(Len(data))))
    THEN Raise("SPSDKError", "Invalid range of region")
    ELSE Ok(AesCtrEncrypt(key, align_block_fill_random(data, 16, fill),
                          CounterValue(prdb.counter, Shr4(start_addr))))

\* lines 373-388: k is the index of the first region holding the address
EncryptInRegion(prdb, key, start_addr, data, fill, k) ==
    IF k = 0 THEN Ok(data)
    ELSE EncryptInFac(prdb, key, start_addr, data, fill, prdb.fac_regions[k])

\* BeeProtectRegionBlock.encrypt_block; fill is the byte that
\* align_block_fill_random draws for the padding
PrdbEncryptBlock(prdb, key, start_addr, data, fill) ==
    IF Len(data) > BEE_ENCR_BLOCK_SIZE
    THEN Raise("SPSDKError", "Incorrect length of binary block to be encrypted")
    ELSE IF ~PrdbIsInsideRegion(prdb, start_addr) THEN Ok(data)
    ELSE IF prdb.mode # AesModeCTR
    THEN Raise("SPSDKError", "only AES/CTR encryption mode supported now")
    ELSE IF Len(key) # 16
    THEN Raise("SPSDKError", "Invalid length of key")
    ELSE EncryptInRegion(prdb, key, start_addr, data, fill,
                         FirstContaining(prdb.fac_regions, start_addr, 1))

\* ------------------------------------------------------------------------
\* BeeRegionHeader: [prdb, sw_key, kib]
\* ------------------------------------------------------------------------
\* BeeRegionHeader.validate
HdrValidate(hdr) ==
    IF KibValidate(hdr.kib) # "" THEN KibValidate(hdr.kib)
    ELSE IF PrdbValidate(hdr.prdb) # "" THEN PrdbValidate(hdr.prdb)
    ELSE IF Len(hdr.sw_key) # 16 THEN "Invalid settings"
    ELSE ""

\* BeeRegionHeader.update
HdrUpdate(hdr) == [hdr EXCEPT !.prdb = PrdbUpdate(@)]

\* export with the encrypted PRDB right after the encrypted KIB
HdrExportUpdatedNoGap(hdr) ==
    Checked(extend_block(
                AesEcbEncrypt(hdr.sw_key, KibExport(hdr.kib).val)
                \o AesCbcEncrypt(hdr.kib.kib_key, hdr.kib.kib_iv, PrdbExport(hdr.prdb).val),
                HEADER_SIZE),
            HdrValidate(hdr))

\* BeeRegionHeader.export after update(): validate, then the encrypted KIB,
\* padding, the encrypted PRDB, padding
HdrExportUpdated(hdr) ==
    Checked(extend_block(
                extend_block(AesEcbEncrypt(hdr.sw_key, KibExport(hdr.kib).val), PRDB_OFFSET)
                \o AesCbcEncrypt(hdr.kib.kib_key, hdr.kib.kib_iv, PrdbExport(hdr.prdb).val),
                HEADER_SIZE),
            HdrValidate(hdr))

\* BeeRegionHeader.export; update() leaves the header as HdrUpdate(hdr)
HdrExport(hdr) == HdrExportUpdated(HdrUpdate(hdr))

\* lines 571-573: the header of the parsed parts, validated
HdrParsed(result) == Checked(result, HdrValidate(result))

\* lines 570-573: the PRDB is parsed
HdrParsePrdb(prdb, kib, sw_key) ==
    IF ~prdb.ok THEN prdb
    ELSE HdrParsed([prdb |-> prdb.val, sw_key |-> sw_key, kib |-> kib])

\* the KIB is parsed, the PRDB read at the offset of the header itself
HdrParseKibAtZero(kib, data, offset, sw_key) ==
    IF ~kib.ok THEN kib
    ELSE HdrParsePrdb(
            PrdbParse(AesCbcDecrypt(kib.val.kib_key, kib.val.kib_iv,
                                    Slice(data, offset, offset + PRDB_SIZE)), 0),
            kib.val, sw_key)

\* lines 566-573: the KIB is parsed
HdrParseKib(kib, data, offset, sw_key) ==
    IF ~kib.ok THEN kib
    ELSE HdrParsePrdb(
            PrdbParse(AesCbcDecrypt(kib.val.kib_key, kib.val.kib_iv,
                                    Slice(data, offset + PRDB_OFFSET,
                                          offset + PRDB_OFFSET + PRDB_SIZE)), 0),
            kib.val, sw_key)

\* BeeRegionHeader.parse
HdrParse(data, offset, sw_key) ==
    IF Len(data) - offset < HEADER_SIZE
    THEN Raise("SPSDKError", "Insufficient size of the data")
    ELSE IF Len(sw_key) # 16 THEN Raise("SPSDKError", "Invalid sw key")
    ELSE HdrParseKib(
            KibParse(AesEcbDecrypt(sw_key, Slice(data, offset, offset + KIB_SIZE)), 0),
            data, offset, sw_key)

\* BeeRegionHeader.encrypt_block
HdrEncryptBlock(hdr, start_addr, data, fill) ==
    PrdbEncryptBlock(hdr.prdb, hdr.sw_key, start_addr, data, fill)

\* BeeRegionHeader.add_fac
HdrAddFac(h, fac) == [h EXCEPT !.prdb = PrdbAddFac(@, fac)]

\* sw_key_fuses with the words taken from the lowest offset up
HdrSwKeyFusesAscending(h) ==
    IF Len(h.sw_key) < 16
    THEN Raise("struct.error", "unpack_from requires a buffer of at least 4 bytes")
    ELSE Ok([i \in 1..4 |-> UnpackBE32(h.sw_key, 4 * (i - 1))])

\* BeeRegionHeader.sw_key_fuses: for pos in range(16, 0, -4) the value of
\* unpack_from(">I", sw_key[pos - 4 : pos]); the first slice is short when
\* the key is
HdrSwKeyFuses(h) ==
    IF Len(h.sw_key) < 16
    THEN Raise("struct.error", "unpack_from requires a buffer of at least 4 bytes")
    ELSE Ok([i \in 1..4 |-> UnpackBE32(h.sw_key, 16 - 4 * i)])

\* ------------------------------------------------------------------------
\* Inputs: keys, counters, regions, pre-built headers, configurations, images
\* ------------------------------------------------------------------------
ShortKey == Bytes([i \in 1..15 |-> i])
KibA == [kib_key |-> Bytes([i \in 1..16 |-> (3 * i + 1) % 256]),
         kib_iv |-> Bytes([i \in 1..16 |-> (5 * i + 2) % 256])]
KibB == [kib_key |-> Bytes([i \in 1..16 |-> (7 * i + 3) % 256]),
         kib_iv |-> Bytes([i \in 1..16 |-> (11 * i + 4) % 256])]
\* a counter that validate rejects: its last four bytes are not zero
CounterBad == Bytes([i \in 1..16 |-> i])

\* a protected_region entry given by small numbers
Region(start, length, level) ==
    [start_address |-> W(start), length |-> W(length), protected_level |-> W(level)]

\* [0x1000, 0x1400), [0x1200, 0x1600), [0x1800, 0x1C00), [0x1400, 0x1800)
R1 == Region(4096, 1024, 0)
R2 == Region(4608, 1024, 1)
R3 == Region(6144, 1024, 2)
R4 == Region(5120, 1024, 3)
\* start and length both off the 1 KB grid: BeeFacRegion rejects it
RBad == Region(4097, 4097, 0)

RegionPool == {R1, R2, R3, RBad}

FacOf(r) == [start_addr |-> r.start_address, length |-> r.length,
             protected_level |-> r.protected_level]

\* a header built beforehand with Key0 and exported to a file: one region R4
PrebuiltHeader ==
    [prdb |-> PrdbAddFac(BeeProtectRegionBlock(AesModeCTR, W(0), Counter1), FacOf(R4)),
     sw_key |-> Key0, kib |-> KibB]

HeaderFileA == HdrExport(PrebuiltHeader).val

\* spsdk.utils.misc.load_binary(path): the bytes of the file
load_binary(path) == IF path = "header_a.bin" THEN HeaderFileA ELSE <<>>

\* the sequences over S of length at most n
SeqUpTo(S, n) == UNION {[1..k -> S] : k \in 0..n}

\* bee_engine entries: engine 0 has Key0 or Key1 and may name the pre-built
\* header (which Key1 does not open), engine 1 has Key0; header_path is ""
\* when absent
EngineEntries(idx, n) ==
    [user_key : IF idx = 0 THEN {Key0, Key1} ELSE {Key0},
     header_path : IF idx = 0 THEN {"", "header_a.bin"} ELSE {""},
     protected_region : SeqUpTo(RegionPool, n)]

RECURSIVE CountRegions(_, _)
CountRegions(engines, i) ==
    IF i > Len(engines) THEN 0
    ELSE Len(engines[i].protected_region) + CountRegions(engines, i + 1)

EngineLists ==
    {<<>>}
    \cup {<<e>> : e \in EngineEntries(0, MaxRegions)}
    \cup {es \in {<<e0, e1>> : e0 \in EngineEntries(0, MaxRegions),
                               e1 \in EngineEntries(1, MaxRegions)} :
            CountRegions(es, 1) <= MaxRegions}

Configs ==
    [engine_selection : {"engine0", "engine1", "both"}, bee_engine : EngineLists]

\* input images: byte i is a fixed function of its offset
ImageOfLen(n) == Bytes([i \in 1..n |-> (7 * i + 3) % 256])

ImageLens ==
    {BEE_ENCR_BLOCK_SIZE * MaxBlocks, BEE_ENCR_BLOCK_SIZE * (MaxBlocks - 1) + 452}

\* base_address: 0x1000, 0x1200
BaseAddresses == {W(4096), W(4608)}

\* the bytes the random source may return for padding
PadBytes == {0, 165}

\* ------------------------------------------------------------------------
\* State
\* ------------------------------------------------------------------------
VARIABLES
    \* BeeNxp.load_from_config and BeeNxp.export_image
    config,          \* the configuration dictionary passed to load_from_config
    pc,              \* "load", "regions", "built", "failed", "exported", "export_failed",
                     \* "headers_exported", "headers_failed"; "object" for a single header
    err,             \* the exception that ended load_from_config or export_image
    prdbs,           \* the BeeProtectRegionBlock objects, by identity
    kibs,            \* the BeeKIB objects, by identity
    bee_headers,     \* list of BeeRegionHeader: [prdb, sw_key, kib], prdb and kib identities
    pos,             \* position of the loop over the protected regions
    input_image,     \* BeeNxp.input_image
    image_base,      \* BeeNxp.base_address
    encrypted_data,  \* export_image: the output so far
    base_address,    \* export_image: the running address
    offset,          \* export_image: offset of the next window in the image
    steps,           \* export_image: the last window before and after each header
    calls,           \* the calls of export_image that have returned or raised
    \* a single BeeRegionHeader and the calls made on it
    hdr,             \* the header: [prdb, sw_key, kib]
    buf,             \* the bytes last exported from it, with what they encode
    call,            \* the last call and its arguments
    out,             \* what the last call returned or raised; for a BeeNxp, what
                     \* export_image or export_headers last returned or raised
    \* PrettyProcessRunner.run over a TaskList (tools/task_scheduler.py)
    tasks,           \* the TaskList: [name, dependencies, inherit_failure, status, exception]
    concurrent_runs, \* the argument of run
    future,          \* per task, the future of its submitted method: [state, callback]
    futures,         \* the keys of the dictionary run keeps (future_set), as task indices
    rpc,             \* where the thread that calls run is: "build" (before run),
                     \* "loop", "count", "set", "start", "submit", "add_callback",
                     \* "store", "outer", "wait", "waiting", "done", "raised"
    loop,            \* which scheduling loop run is in: "first" or "inner"
    cur,             \* the task _schedule_user_task is called with
    waitset,         \* the futures concurrent.futures.wait was called with
    set_at,          \* the index of the task the loop of _set_task_states is at
    cb,              \* the callback the executor's thread is running: [task, at],
                     \* at "idle", "pop" (before line 350) or "finish" (before line
                     \* 351)
    raised           \* the message of the exception the last of append, extend and
                     \* run raised, "" for none

loadVars == <<config, pc, err, prdbs, kibs, bee_headers, pos>>
exportVars == <<input_image, image_base, encrypted_data, base_address, offset, steps,
               calls>>
objVars == <<hdr, buf, call, out>>
schedVars == <<tasks, concurrent_runs, future, futures, rpc, loop, cur, waitset, set_at,
              cb, raised>>
vars == <<loadVars, exportVars, objVars, schedVars>>

\* No TaskList is being run.
SchedIdle ==
    /\ tasks = <<>>
    /\ concurrent_runs = 0
    /\ future = <<>>
    /\ futures = {}
    /\ rpc = "idle"
    /\ loop = "idle"
    /\ cur = 0
    /\ waitset = {}
    /\ set_at = 0
    /\ cb = [task |-> 0, at |-> "idle"]
    /\ raised = ""

NoErr == [type |-> "", msg |-> ""]
ErrOf(r) == [type |-> r.type, msg |-> r.msg]

\* ------------------------------------------------------------------------
\* BeeNxp.load_from_config
\* ------------------------------------------------------------------------
\* engine_selections (line 712), indices from 0
EngineSelections(sel) ==
    IF sel = "engine0" THEN <<0>> ELSE IF sel = "engine1" THEN <<1>> ELSE <<0, 1>>

\* the header value behind a list entry
HeaderValue(h, ps, ks) == [prdb |-> ps[h.prdb], sw_key |-> h.sw_key, kib |-> ks[h.kib]]

\* the loop of lines 715-722 from the i-th selected engine on; acc holds the
\* headers and the objects created so far.  The default prdb and kib have
\* identity 0, those parsed for engine idx have identity idx + 1.
RECURSIVE CreateHeaders(_, _, _, _)
RECURSIVE CreateParsed(_, _, _, _, _)
RECURSIVE CreateHeader(_, _, _, _, _)

\* lines 719, 722: the header parsed from header_path
CreateParsed(bee_engines, sel, i, acc, ehdr) ==
    IF ~ehdr.ok THEN ehdr
    ELSE CreateHeaders(bee_engines, sel, i + 1,
            [headers |-> Append(acc.headers,
                                [prdb |-> sel[i] + 1, sw_key |-> ehdr.val.sw_key,
                                 kib |-> sel[i] + 1]),
             prdbs |-> ((sel[i] + 1) :> ehdr.val.prdb) @@ acc.prdbs,
             kibs |-> ((sel[i] + 1) :> ehdr.val.kib) @@ acc.kibs])

\* a fresh header given copies of the default PRDB and KIB for itself
CreateHeaderOwnCopies(bee_engines, sel, i, acc, e) ==
    IF e.header_path # ""
    THEN CreateParsed(bee_engines, sel, i, acc,
                      HdrParse(load_binary(e.header_path), 0, e.user_key))
    ELSE CreateHeaders(bee_engines, sel, i + 1,
            [headers |-> Append(acc.headers,
                                [prdb |-> sel[i] + 1, sw_key |-> e.user_key,
                                 kib |-> sel[i] + 1]),
             prdbs |-> ((sel[i] + 1) :> acc.prdbs[0]) @@ acc.prdbs,
             kibs |-> ((sel[i] + 1) :> acc.kibs[0]) @@ acc.kibs])

\* lines 716-722: the header of the engine entry e
CreateHeader(bee_engines, sel, i, acc, e) ==
    IF e.header_path # ""
    THEN CreateParsed(bee_engines, sel, i, acc,
                      HdrParse(load_binary(e.header_path), 0, e.user_key))
    ELSE CreateHeaders(bee_engines, sel, i + 1,
            [acc EXCEPT !.headers =
                Append(@, [prdb |-> 0, sw_key |-> e.user_key, kib |-> 0])])

CreateHeaders(bee_engines, sel, i, acc) ==
    IF i > Len(sel) THEN Ok(acc)
    ELSE IF sel[i] >= Len(bee_engines) THEN Raise("IndexError", "list index out of range")
    ELSE CreateHeader(bee_engines, sel, i, acc, bee_engines[sel[i] + 1])

\* lines 714-724: r is what the loop over the selected engines gave; an
\* IndexError becomes SPSDKError
HeadersCreated(r) ==
    IF r.ok
    THEN /\ bee_headers' = r.val.headers
         /\ prdbs' = r.val.prdbs
         /\ kibs' = r.val.kibs
         /\ pc' = "regions"
         /\ err' = NoErr
    ELSE /\ pc' = "failed"
         /\ err' = IF r.type = "IndexError"
                   THEN [type |-> "SPSDKError",
                         msg |-> "The count of BEE engines is invalid"]
                   ELSE ErrOf(r)
         /\ UNCHANGED <<bee_headers, prdbs, kibs>>

\* lines 707-724: the default PRDB (its counter random) and KIB, then one
\* header per selected engine
LoadHeaders ==
    /\ pc = "load"
    /\ \E counter \in {Counter0} :
         HeadersCreated(
            CreateHeaders(config.bee_engine, EngineSelections(config.engine_selection), 1,
                [headers |-> <<>>,
                 prdbs |-> (0 :> BeeProtectRegionBlock(AesModeCTR, W(0), counter)),
                 kibs |-> (0 :> KibA)]))
    /\ UNCHANGED <<schedVars, config, pos, exportVars, objVars>>

\* the (engine_idx, protected_region) pairs in the order of the loops of
\* lines 726-727
RECURSIVE AllRegions(_, _)
AllRegions(bee_engines, i) ==
    IF i > Len(bee_engines) THEN <<>>
    ELSE [k \in 1..Len(bee_engines[i].protected_region) |->
             [engine_idx |-> i - 1, region |-> bee_engines[i].protected_region[k]]]
         \o AllRegions(bee_engines, i + 1)

\* BeeNxp.check_overlaps looking at the first header only
CheckOverlapsFirstHeader(headers, ps, start_addr) ==
    \E h \in 1..(IF Len(headers) = 0 THEN 0 ELSE 1) :
        \E k \in 1..Len(ps[headers[h].prdb].fac_regions) :
            FacContains(ps[headers[h].prdb].fac_regions[k], start_addr)

\* BeeNxp.check_overlaps: TRUE when SPSDKOverlapError is raised
CheckOverlaps(headers, ps, start_addr) ==
    \E h \in 1..Len(headers) :
        \E k \in 1..Len(ps[headers[h].prdb].fac_regions) :
            FacContains(ps[headers[h].prdb].fac_regions[k], start_addr)

\* lines 728-734: the region of engine engine_idx, fac what BeeFacRegion(...)
\* gave for it
AddFac(engine_idx, fac) ==
    IF ~fac.ok
    THEN /\ pc' = "failed"
         /\ err' = ErrOf(fac)
         /\ UNCHANGED <<prdbs, pos>>
    ELSE IF CheckOverlaps(bee_headers, prdbs, fac.val.start_addr)
    THEN /\ pc' = "failed"
         /\ err' = [type |-> "SPSDKOverlapError",
                    msg |-> "Region start address is overlapping"]
         /\ UNCHANGED <<prdbs, pos>>
    ELSE IF engine_idx >= Len(bee_headers)
    THEN /\ pc' = "failed"
         /\ err' = [type |-> "IndexError", msg |-> "list index out of range"]
         /\ UNCHANGED <<prdbs, pos>>
    ELSE /\ prdbs' = [prdbs EXCEPT ![bee_headers[engine_idx + 1].prdb] =
                                        PrdbAddFac(@, fac.val)]
         /\ pos' = pos + 1
         /\ UNCHANGED <<pc, err>>

\* lines 726-734: one protected region of the configuration
AddRegionItem(item) ==
    AddFac(item.engine_idx,
           BeeFacRegion(item.region.start_address, item.region.length,
                        item.region.protected_level))

AddRegion ==
    /\ pc = "regions"
    /\ pos <= Len(AllRegions(config.bee_engine, 1))
    /\ AddRegionItem(AllRegions(config.bee_engine, 1)[pos])
    /\ UNCHANGED <<schedVars, config, kibs, bee_headers, exportVars, objVars>>

\* line 736: BeeNxp(bee_headers, input_binary, base_address)
LoadReturn ==
    /\ pc = "regions"
    /\ pos > Len(AllRegions(config.bee_engine, 1))
    /\ pc' = "built"
    /\ \E n \in ImageLens, base \in BaseAddresses :
         /\ input_image' = ImageOfLen(n)
         /\ image_base' = base
         /\ base_address' = base
    /\ encrypted_data' = <<>>
    /\ offset' = 0
    /\ steps' = <<>>
    /\ calls' = 0
    /\ UNCHANGED <<schedVars, config, err, prdbs, kibs, bee_headers, pos, objVars>>

\* ------------------------------------------------------------------------
\* BeeNxp.export_image
\* ------------------------------------------------------------------------
\* lines 622-623: the block passed through the headers from the i-th on;
\* trace holds the block before and after each header called so far
RECURSIVE EncryptChain(_, _, _, _, _, _, _)
RECURSIVE EncryptChained(_, _, _, _, _, _, _, _)
EncryptChained(headers, ps, ks, i, addr, fill, trace, r) ==
    IF ~r.ok THEN [r EXCEPT !.val = trace]
    ELSE EncryptChain(headers, ps, ks, i + 1, addr, fill, Append(trace, r.val))

EncryptChain(headers, ps, ks, i, addr, fill, trace) ==
    IF i > Len(headers) THEN Ok(trace)
    ELSE EncryptChained(headers, ps, ks, i, addr, fill, trace,
            HdrEncryptBlock(HeaderValue(headers[i], ps, ks), addr, trace[Len(trace)], fill))

\* the running address advanced by 16 more than the length of the block
BlockExportedDrift(block, r) ==
    /\ steps' = r.val
    /\ IF r.ok
       THEN /\ encrypted_data' = encrypted_data \o r.val[Len(r.val)]
            /\ base_address' = WAdd(base_address, W(Len(r.val[Len(r.val)]) + 16))
            /\ offset' = offset + Len(block)
            /\ UNCHANGED <<pc, err, out>>
       ELSE /\ pc' = "export_failed"
            /\ err' = ErrOf(r)
            /\ out' = Raise(r.type, r.msg)
            /\ UNCHANGED <<encrypted_data, base_address, offset>>

\* lines 624-625: the block is through the headers, r what they gave
BlockExported(block, r) ==
    /\ steps' = r.val
    /\ IF r.ok
       THEN /\ encrypted_data' = encrypted_data \o r.val[Len(r.val)]
            /\ base_address' = WAdd(base_address, W(Len(r.val[Len(r.val)])))
            /\ offset' = offset + Len(block)
            /\ UNCHANGED <<pc, err, out>>
       ELSE /\ pc' = "export_failed"
            /\ err' = ErrOf(r)
            /\ out' = Raise(r.type, r.msg)
            /\ UNCHANGED <<encrypted_data, base_address, offset>>

\* lines 620-625: one window of split_data(image_data, BEE_ENCR_BLOCK_SIZE)
ExportWindow(block, fill) ==
    BlockExported(block,
        EncryptChain(bee_headers, prdbs, kibs, 1, base_address, fill, <<block>>))

\* the loop body advancing self.base_address with the local
ExportBlockOnSelf ==
    /\ pc = "built"
    /\ offset < Len(input_image)
    /\ \E fill \in PadBytes :
         ExportWindow(Slice(input_image, offset, offset + BEE_ENCR_BLOCK_SIZE), fill)
    /\ image_base' = base_address'
    /\ UNCHANGED <<schedVars, config, prdbs, kibs, bee_headers, pos, input_image, calls,
                   hdr, buf, call>>

\* lines 620-625: the loop body; the image is read through the copy of
\* line 617, the address advanced is the local of line 618
ExportBlock ==
    /\ pc = "built"
    /\ offset < Len(input_image)
    /\ \E fill \in PadBytes :
         ExportWindow(Slice(input_image, offset, offset + BEE_ENCR_BLOCK_SIZE), fill)
    /\ UNCHANGED <<schedVars, config, prdbs, kibs, bee_headers, pos, input_image, image_base,
                   calls, hdr, buf, call>>

\* line 627: return bytes(encrypted_data)
ExportReturn ==
    /\ pc = "built"
    /\ offset >= Len(input_image)
    /\ pc' = "exported"
    /\ out' = Ok(encrypted_data)
    /\ UNCHANGED <<schedVars, config, err, prdbs, kibs, bee_headers, pos, exportVars, hdr, buf, call>>

\* ------------------------------------------------------------------------
\* BeeNxp.export_headers
\* ------------------------------------------------------------------------
\* lines 635-636: the headers from the i-th on exported after blobs; export
\* runs update() on the PRDB of the header before it validates
RECURSIVE ExportHeadersFrom(_, _, _, _, _)
RECURSIVE HeaderExported(_, _, _, _, _, _)
HeaderExported(headers, ps, ks, i, blobs, r) ==
    IF ~r.ok THEN [res |-> r, prdbs |-> ps]
    ELSE ExportHeadersFrom(headers, ps, ks, i + 1, Append(blobs, r.val))

ExportHeadersFrom(headers, ps, ks, i, blobs) ==
    IF i > Len(headers) THEN [res |-> Ok(blobs), prdbs |-> ps]
    ELSE HeaderExported(headers, [ps EXCEPT ![headers[i].prdb] = PrdbUpdate(@)], ks, i,
                        blobs, HdrExport(HeaderValue(headers[i], ps, ks)))

\* line 638: return headers, or the exception of an export
HeadersExported(x) ==
    /\ out' = x.res
    /\ prdbs' = x.prdbs
    /\ pc' = (IF x.res.ok THEN "headers_exported" ELSE "headers_failed")
    /\ err' = (IF x.res.ok THEN NoErr ELSE ErrOf(x.res))

ExportHeaders ==
    /\ pc = "built"
    /\ offset = 0
    /\ calls = 0
    /\ HeadersExported(ExportHeadersFrom(bee_headers, prdbs, kibs, 1, <<>>))
    /\ UNCHANGED <<schedVars, config, kibs, bee_headers, pos, exportVars, hdr, buf, call>>

\* the most calls of export_image after the first
MaxCalls == 1

\* lines 616-618: export_image is called once more on the same BeeNxp
ExportAgain ==
    /\ pc \in {"exported", "export_failed"}
    /\ calls < MaxCalls
    /\ calls' = calls + 1
    /\ pc' = "built"
    /\ err' = NoErr
    /\ encrypted_data' = <<>>
    /\ base_address' = image_base
    /\ offset' = 0
    /\ steps' = <<>>
    /\ UNCHANGED <<schedVars, config, prdbs, kibs, bee_headers, pos, input_image, image_base, objVars>>

\* ------------------------------------------------------------------------
\* Specification of load_from_config followed by export_image
\* ------------------------------------------------------------------------
ObjIdle ==
    /\ hdr = <<>>
    /\ buf = <<>>
    /\ call = <<>>
    /\ out = <<>>

Init ==
    /\ config \in Configs
    /\ pc = "load"
    /\ err = NoErr
    /\ prdbs = <<>>
    /\ kibs = <<>>
    /\ bee_headers = <<>>
    /\ pos = 1
    /\ input_image = <<>>
    /\ image_base = W(0)
    /\ encrypted_data = <<>>
    /\ base_address = W(0)
    /\ offset = 0
    /\ steps = <<>>
    /\ calls = 0
    /\ ObjIdle
    /\ SchedIdle

Next ==
    \/ LoadHeaders
    \/ AddRegion
    \/ LoadReturn
    \/ ExportBlock
    \/ ExportReturn
    \/ ExportAgain
    \/ ExportHeaders

Spec == Init /\ [][Next]_vars

\* ------------------------------------------------------------------------
\* A single BeeRegionHeader and the calls made on it: add_fac while it is
\* built, then export of the header or of one of its parts followed by
\* parse of the exported bytes, or encrypt_block, once and again.
\* encrypt_block and parse leave the header as it is; export runs update().
\* ------------------------------------------------------------------------
\* the most regions added to one header
MaxAdds == 5

\* lock_options 0xABCD1234
LockWide == WNorm(43981, 4660)

\* the regions added: [0x1000, 0x1400) and [0x1800, 0x1C00), a gap between
ObjRegions == {R1, R3}

\* the headers as constructed: a valid one, one in ECB mode, one whose
\* counter does not end in zeros, one with a 15-byte sw_key
ObjHeaders ==
    {[prdb |-> BeeProtectRegionBlock(AesModeCTR, LockWide, Counter0),
      sw_key |-> Key0, kib |-> KibA],
     [prdb |-> BeeProtectRegionBlock(AesModeECB, W(1), Counter0),
      sw_key |-> Key0, kib |-> KibA],
     [prdb |-> BeeProtectRegionBlock(AesModeCTR, W(0), CounterBad),
      sw_key |-> Key1, kib |-> KibB],
     [prdb |-> BeeProtectRegionBlock(AesModeCTR, W(2), Counter1),
      sw_key |-> ShortKey, kib |-> KibB]}

\* start_addr of encrypt_block: 0x0C00 below the regions, 0x1000 and 0x1200
\* in R1, 0x1400 in the gap, 0x1C00 the end of R3
ObjAddresses == {W(3072), W(4096), W(4608), W(5120), W(7168)}

\* len(data) of encrypt_block
ObjBlockLens == {BEE_ENCR_BLOCK_SIZE, 452, BEE_ENCR_BLOCK_SIZE + 1}

\* the data given to parse: the exported bytes, the bytes less the last
\* one, the bytes after three others with offset 3
ParseVariants == {"exact", "short", "offset"}

\* the exported PRDB with bytes replaced before parse: "span" stores
\* start address 1 and end address 2 at offsets 16 and 20; the others
\* spoil the low tag, the high tag, the version, the last byte of the
\* reserved area, store the region count 0 or 5, the mode ECB, or make the
\* first counter byte on the wire, the last in memory, 1
PrdbPatches ==
    [span     |-> [at |-> 16, bytes |-> <<1, 0, 0, 0, 2, 0, 0, 0>>],
     tagl     |-> [at |-> 0,  bytes |-> <<0>>],
     tagh     |-> [at |-> 4,  bytes |-> <<0>>],
     version  |-> [at |-> 8,  bytes |-> <<1>>],
     reserved |-> [at |-> 79, bytes |-> <<1>>],
     count0   |-> [at |-> 12, bytes |-> <<0>>],
     count5   |-> [at |-> 12, bytes |-> <<5>>],
     mode     |-> [at |-> 24, bytes |-> <<0>>],
     counter  |-> [at |-> 32, bytes |-> <<1>>]]

\* data with the bytes from offset at on replaced
Patch(data, at, bytes) ==
    [i \in 1..Len(data) |->
        IF i > at /\ i <= at + Len(bytes) THEN bytes[i - at] ELSE data[i]]

\* the sw_key given to BeeRegionHeader.parse
ParseKeys == {Key0, Key1, ShortKey}

NoCall ==
    [op |-> "new", kind |-> "", variant |-> "", key |-> <<>>, addr |-> W(0),
     data |-> <<>>, fill |-> 0, again |-> FALSE, args |-> <<>>, from |-> "",
     first |-> <<>>]

\* arguments of BeeFacRegion(start, length, protected_level): start 0,
\* 0x1000, 0x1001, 0xFFFFFC00, 0xFFFFFFFF; length 0, 1, 0x3FF, 0x400, 0x1001,
\* 0xFFFFFFFF and, as parse gives for end < start, -0x400; level -1, 0, 3, 4
FacStarts == {W(0), W(4096), W(4097), WNorm(65535, 64512), U32_MAX}
FacLengths == {W(0), W(1), W(1023), W(1024), W(4097), U32_MAX, W(-1024)}
FacLevels == {W(-1), W(0), W(3), W(4)}

NoBuf == [kind |-> "", data |-> <<>>, of |-> <<>>]

\* header.add_fac(BeeFacRegion(...)) for a region of ObjRegions
ObjAddFac ==
    /\ pc = "object"
    /\ call.op \in {"new", "add_fac", "adopt"}
    /\ Len(hdr.prdb.fac_regions) < MaxAdds
    /\ \E r \in ObjRegions :
         hdr' = HdrAddFac(hdr, BeeFacRegion(r.start_address, r.length,
                                            r.protected_level).val)
    /\ call' = [NoCall EXCEPT !.op = "add_fac", !.from = call.from]
    /\ buf' = NoBuf
    /\ out' = Ok(<<>>)
    /\ UNCHANGED <<loadVars, exportVars, schedVars>>

\* x.export() gave r for the part x of the header, and left the header as after
ObjExported(kind, x, r, after) ==
    /\ call' = [NoCall EXCEPT !.op = "export", !.kind = kind]
    /\ buf' = [kind |-> kind, data |-> r.val, of |-> x]
    /\ out' = r
    /\ hdr' = after

\* export() of a region, of the KIB, of the PRDB or of the header
ObjExport ==
    /\ pc = "object"
    /\ call.op \in {"new", "add_fac", "adopt"}
    /\ \/ \E k \in 1..Len(hdr.prdb.fac_regions) :
            ObjExported("fac", hdr.prdb.fac_regions[k],
                        FacExport(hdr.prdb.fac_regions[k]), hdr)
       \/ ObjExported("kib", hdr.kib, KibExport(hdr.kib), hdr)
       \/ ObjExported("prdb", hdr.prdb, PrdbExport(hdr.prdb), HdrUpdate(hdr))
       \/ ObjExported("hdr", hdr, HdrExport(hdr), HdrUpdate(hdr))
    /\ UNCHANGED <<loadVars, exportVars, schedVars>>

\* cls.parse(data, offset) of the class that exported
ParseOf(kind, data, offs, key) ==
    IF kind = "fac" THEN FacParse(data, offs)
    ELSE IF kind = "kib" THEN KibParse(data, offs)
    ELSE IF kind = "prdb" THEN PrdbParse(data, offs)
    ELSE HdrParse(data, offs, key)

\* the data and offset handed to parse
ParseData(variant, data) ==
    IF variant = "short" THEN Slice(data, 0, Len(data) - 1)
    ELSE IF variant = "offset" THEN <<1, 2, 3>> \o data
    ELSE IF variant \in DOMAIN PrdbPatches
    THEN Bytes(Patch(data, PrdbPatches[variant].at, PrdbPatches[variant].bytes))
    ELSE data

ParseOffset(variant) == IF variant = "offset" THEN 3 ELSE 0

\* parse of the bytes last exported
ObjParse ==
    /\ pc = "object"
    /\ call.op = "export"
    /\ out.ok
    /\ \E variant \in ParseVariants
                      \cup (IF buf.kind = "prdb" THEN DOMAIN PrdbPatches ELSE {}) :
         \E key \in (IF buf.kind = "hdr" THEN ParseKeys ELSE {<<>>}) :
            /\ call' = [NoCall EXCEPT !.op = "parse", !.kind = buf.kind,
                                      !.variant = variant, !.key = key]
            /\ out' = ParseOf(buf.kind, ParseData(variant, buf.data),
                              ParseOffset(variant), key)
    /\ UNCHANGED <<hdr, buf, loadVars, exportVars, schedVars>>

\* the calls that follow are made on the object parse returned: the PRDB
\* becomes the header's, the header takes the place of the header
ObjAdopt ==
    /\ pc = "object"
    /\ call.op = "parse"
    /\ call.kind \in {"prdb", "hdr"}
    /\ out.ok
    /\ hdr' = (IF call.kind = "prdb" THEN [hdr EXCEPT !.prdb = out.val] ELSE out.val)
    /\ call' = [NoCall EXCEPT !.op = "adopt", !.from = call.variant]
    /\ buf' = NoBuf
    /\ out' = Ok(<<>>)
    /\ UNCHANGED <<loadVars, exportVars, schedVars>>

\* header.encrypt_block(start_addr, data)
ObjEncryptBlock ==
    /\ pc = "object"
    /\ call.op \in {"new", "add_fac", "adopt"}
    /\ \E addr \in ObjAddresses, n \in ObjBlockLens, fill \in PadBytes :
         /\ call' = [NoCall EXCEPT !.op = "encrypt", !.addr = addr,
                                   !.data = ImageOfLen(n), !.fill = fill]
         /\ out' = HdrEncryptBlock(hdr, addr, ImageOfLen(n), fill)
    /\ UNCHANGED <<hdr, buf, loadVars, exportVars, schedVars>>

\* the same call once more
ObjEncryptAgain ==
    /\ pc = "object"
    /\ call.op = "encrypt"
    /\ ~call.again
    /\ \E fill \in PadBytes :
         /\ call' = [call EXCEPT !.fill = fill, !.again = TRUE, !.first = out]
         /\ out' = HdrEncryptBlock(hdr, call.addr, call.data, fill)
    /\ UNCHANGED <<hdr, buf, loadVars, exportVars, schedVars>>

\* BeeFacRegion(start, length, protected_level)
ObjNewFac ==
    /\ pc = "object"
    /\ call.op = "new"
    /\ \E start \in FacStarts, length \in FacLengths, level \in FacLevels :
         /\ call' = [NoCall EXCEPT !.op = "new_fac", !.args = <<start, length, level>>]
         /\ out' = BeeFacRegion(start, length, level)
    /\ UNCHANGED <<hdr, buf, loadVars, exportVars, schedVars>>

\* header.sw_key_fuses()
ObjFuses ==
    /\ pc = "object"
    /\ call.op = "new"
    /\ call' = [NoCall EXCEPT !.op = "fuses"]
    /\ out' = HdrSwKeyFuses(hdr)
    /\ UNCHANGED <<hdr, buf, loadVars, exportVars, schedVars>>

InitObj ==
    /\ hdr \in ObjHeaders
    /\ buf = NoBuf
    /\ call = NoCall
    /\ out = Ok(<<>>)
    /\ config = <<>>
    /\ pc = "object"
    /\ err = NoErr
    /\ prdbs = <<>>
    /\ kibs = <<>>
    /\ bee_headers = <<>>
    /\ pos = 1
    /\ input_image = <<>>
    /\ image_base = W(0)
    /\ encrypted_data = <<>>
    /\ base_address = W(0)
    /\ offset = 0
    /\ steps = <<>>
    /\ calls = 0
    /\ SchedIdle

NextObj ==
    \/ ObjAddFac
    \/ ObjExport
    \/ ObjParse
    \/ ObjEncryptBlock
    \/ ObjEncryptAgain
    \/ ObjFuses
    \/ ObjNewFac
    \/ ObjAdopt

SpecObj == InitObj /\ [][NextObj]_vars

\* ------------------------------------------------------------------------
\* Both: a BeeNxp loaded and exported, or a single header and its calls
\* ------------------------------------------------------------------------
InitAll == Init \/ InitObj

NextAll == Next \/ NextObj

SpecAll == InitAll /\ [][NextAll]_vars

\* ------------------------------------------------------------------------
\* Properties of load_from_config and export_image (under Spec)
\* ------------------------------------------------------------------------
\* the address lies in [start, end) of the region
InRange(fac, addr) == WLe(fac.start_addr, addr) /\ WLt(addr, FacEnd(fac))

\* the ranges [start, end) of two regions do not intersect
Disjoint(a, b) == WLe(FacEnd(a), b.start_addr) \/ WLe(FacEnd(b), a.start_addr)

\* load_from_config has returned a BeeNxp
Built == pc \in {"built", "exported", "export_failed"}

\* the regions held by the headers: <<identity of the PRDB, index in its list>>
HeldRegions ==
    {<<bee_headers[h].prdb, k>> :
        h \in 1..Len(bee_headers), k \in 1..MaxRegions + 1} \cap
    {x \in (DOMAIN prdbs) \X (1..MaxRegions + 1) : x[2] <= Len(prdbs[x[1]].fac_regions)}

\* the address lies in a region held by some header
InSomeRegion(addr) ==
    \E x \in HeldRegions : InRange(prdbs[x[1]].fac_regions[x[2]], addr)

\* C1: after load_from_config succeeds, no two FAC regions held by the
\* resulting headers, of one engine or of two, have intersecting address
\* ranges [start, end), in whatever order the regions were listed.
NoTwoRegionsIntersect ==
    Built =>
        \A x \in HeldRegions, y \in HeldRegions :
            x # y => Disjoint(prdbs[x[1]].fac_regions[x[2]],
                              prdbs[y[1]].fac_regions[y[2]])

\* C2: in export_image at most one header's encrypt_block changes a
\* window; every other header of the chain returns it unchanged.
AtMostOneHeaderChangesWindow ==
    Cardinality({i \in 1..Len(steps) - 1 : steps[i + 1] # steps[i]}) <= 1

\* the regions the header of an engine entry is to hold: those of its
\* pre-built header, then those listed in protected_region
ExpectedRegions(e) ==
    (IF e.header_path # "" THEN PrebuiltHeader.prdb.fac_regions ELSE <<>>)
    \o [k \in 1..Len(e.protected_region) |-> FacOf(e.protected_region[k])]

\* the j-th header is the one of engine entry e: its key, its regions
HeaderOfEngine(j, e) ==
    /\ bee_headers[j].sw_key = e.user_key
    /\ prdbs[bee_headers[j].prdb].fac_regions = ExpectedRegions(e)

\* C3: after load_from_config succeeds, for every selected engine index i
\* the header created with bee_engine[i].user_key holds exactly the regions
\* of bee_engine[i].protected_region (after those of its pre-built header).
RegionsFollowEngine ==
    Built =>
        \A j \in 1..Len(bee_headers) :
            HeaderOfEngine(j,
                config.bee_engine[EngineSelections(config.engine_selection)[j] + 1])

\* the region about to be added is valid and starts inside a region
\* registered on some header
OverlappingNext(item) ==
    /\ BeeFacRegion(item.region.start_address, item.region.length,
                    item.region.protected_level).ok
    /\ InSomeRegion(item.region.start_address)

\* C5: adding a FAC region whose start address falls inside a region
\* registered on any engine's header fails with SPSDKOverlapError,
\* whichever engine the region is destined for, and no header gets it.
OverlapRejected ==
    [][(/\ pc = "regions"
        /\ pos <= Len(AllRegions(config.bee_engine, 1))
        /\ OverlappingNext(AllRegions(config.bee_engine, 1)[pos]))
       => (/\ pc' = "failed"
           /\ err'.type = "SPSDKOverlapError"
           /\ prdbs' = prdbs)]_vars

\* C5 happens: a region destined for engine 1 was rejected for starting
\* inside a region registered before
OverlapRejectedSeen ==
    /\ pc = "failed"
    /\ err.type = "SPSDKOverlapError"
    /\ AllRegions(config.bee_engine, 1)[pos].engine_idx = 1
    /\ InSomeRegion(AllRegions(config.bee_engine, 1)[pos].region.start_address)

\* the header of the engine entry is created without error
EntryLoads(e) ==
    e.header_path = "" \/ HdrParse(load_binary(e.header_path), 0, e.user_key).ok

\* the build used an engine index that has no entry in bee_engine (before
\* any header exists) or no header (while the regions are added)
MissingIndexUsed ==
    IF DOMAIN prdbs = {}
    THEN \E i \in 1..Len(EngineSelections(config.engine_selection)) :
            /\ EngineSelections(config.engine_selection)[i] >= Len(config.bee_engine)
            /\ \A j \in 1..(i - 1) : EntryLoads(config.bee_engine[
                                        EngineSelections(config.engine_selection)[j] + 1])
    ELSE /\ pos <= Len(AllRegions(config.bee_engine, 1))
         /\ AllRegions(config.bee_engine, 1)[pos].engine_idx >= Len(bee_headers)
         /\ BeeFacRegion(AllRegions(config.bee_engine, 1)[pos].region.start_address,
                         AllRegions(config.bee_engine, 1)[pos].region.length,
                         AllRegions(config.bee_engine, 1)[pos].region.protected_level).ok
         /\ ~InSomeRegion(AllRegions(config.bee_engine, 1)[pos].region.start_address)

\* C6: load_from_config fails with SPSDKError "The count of BEE engines is
\* invalid", and with no other error, whenever an engine index used during
\* the build has no corresponding entry or header.
MismatchIsConfigError ==
    (pc = "failed" /\ MissingIndexUsed)
        => err = [type |-> "SPSDKError", msg |-> "The count of BEE engines is invalid"]

\* the output for a window at addr: its AES-CTR ciphertext under the key
\* and counter of a header that holds the address, the window itself when
\* no header does
WindowOutput(win, addr, fill, res) ==
    IF InSomeRegion(addr)
    THEN \E h \in 1..Len(bee_headers) :
            /\ \E k \in 1..Len(prdbs[bee_headers[h].prdb].fac_regions) :
                    InRange(prdbs[bee_headers[h].prdb].fac_regions[k], addr)
            /\ res = AesCtrEncrypt(bee_headers[h].sw_key,
                                   align_block_fill_random(win, 16, fill),
                                   CounterValue(prdbs[bee_headers[h].prdb].counter,
                                                Shr4(addr)))
    ELSE res = win

\* C7: export_image takes the image in 1024-byte windows, the k-th at
\* base_address + 1024 * k; a window whose address is inside a FAC region
\* comes out as its AES-CTR ciphertext, every other window unchanged at
\* the same offset.
WindowsByAddress ==
    (pc \in {"built", "exported"} /\ steps # <<>>) =>
        /\ WSub(base_address, W(Len(steps[Len(steps)])))
              = WAdd(image_base, W(offset - Len(steps[1])))
        /\ offset - Len(steps[1]) = BEE_ENCR_BLOCK_SIZE * ((offset - 1) \div BEE_ENCR_BLOCK_SIZE)
        /\ SubSeq(encrypted_data, Len(encrypted_data) - Len(steps[Len(steps)]) + 1,
                  Len(encrypted_data)) = steps[Len(steps)]
        /\ \E fill \in PadBytes :
              WindowOutput(steps[1], WAdd(image_base, W(offset - Len(steps[1]))),
                           fill, steps[Len(steps)])

\* ------------------------------------------------------------------------
\* Properties of a single header (under SpecObj)
\* ------------------------------------------------------------------------
\* C4: encrypt_block of a PRDB in CTR mode, given a 16-byte key and a
\* block of at most 1024 bytes (through BeeRegionHeader.encrypt_block),
\* returns the block unchanged whenever the address lies in none of the
\* FAC regions, a gap between two regions included, on every call.
PassThroughOutsideRegions ==
    (/\ call.op = "encrypt"
     /\ hdr.prdb.mode = AesModeCTR
     /\ Len(hdr.sw_key) = 16
     /\ Len(call.data) <= BEE_ENCR_BLOCK_SIZE
     /\ \A k \in 1..Len(hdr.prdb.fac_regions) :
            ~InRange(hdr.prdb.fac_regions[k], call.addr))
        => (out.ok /\ out.val = call.data)

\* C4 happens: a repeated call at 0x1400, in the gap between [0x1000,
\* 0x1400) and [0x1800, 0x1C00), returned the block
PassThroughInGapSeen ==
    /\ call.op = "encrypt"
    /\ call.again
    /\ call.addr = W(5120)
    /\ hdr.prdb.mode = AesModeCTR
    /\ Len(hdr.sw_key) = 16
    /\ Len(hdr.prdb.fac_regions) = 2
    /\ hdr.prdb.fac_regions[1] # hdr.prdb.fac_regions[2]
    /\ call.data # <<>>
    /\ out.ok
    /\ out.val = call.data

\* x.export() of the class that parsed
ExportOf(kind, x) ==
    IF kind = "fac" THEN FacExport(x)
    ELSE IF kind = "kib" THEN KibExport(x)
    ELSE IF kind = "prdb" THEN PrdbExport(x)
    ELSE HdrExport(x)

\* C8: for every valid BeeFacRegion, BeeKIB and PRDB x (1 to 4 regions,
\* CTR mode, counter ending in four zero bytes), parse(export(x)) equals x
\* and export(parse(export(x))) equals export(x).
RoundTrip ==
    (/\ call.op = "parse"
     /\ call.kind \in {"fac", "kib", "prdb"}
     /\ call.variant \in {"exact", "offset"})
        => /\ out.ok
           /\ out.val = buf.of
           /\ ExportOf(call.kind, out.val) = Ok(buf.data)

\* C8 happens: a PRDB of four regions was exported and parsed back
RoundTripSeen ==
    /\ call.op = "parse"
    /\ call.kind = "prdb"
    /\ call.variant = "exact"
    /\ out.ok
    /\ Len(out.val.fac_regions) = FAC_REGIONS
    /\ out.val = buf.of

\* C9: BeeRegionHeader.parse(h.export(), sw_key) equals h; parse fails
\* when sw_key is not 16 bytes long or the data are shorter than 512
\* bytes; a header it returns passes validate().
HeaderRoundTrip ==
    (call.op = "parse" /\ call.kind = "hdr")
        => /\ (call.variant \in {"exact", "offset"} /\ call.key = buf.of.sw_key)
                => (out.ok /\ out.val = buf.of)
           /\ (Len(call.key) # 16 \/ call.variant = "short") => ~out.ok
           /\ out.ok => HdrValidate(out.val) = ""

\* C9 happens: a header of two regions was exported and parsed back with
\* its sw_key
HeaderRoundTripSeen ==
    /\ call.op = "parse"
    /\ call.kind = "hdr"
    /\ call.variant = "exact"
    /\ call.key = buf.of.sw_key
    /\ out.ok
    /\ out.val = buf.of
    /\ Len(out.val.prdb.fac_regions) = 2

\* C10: PRDB.export writes the 16-byte counter field in reversed byte
\* order, PRDB.parse reverses it back: the counter parsed equals the one
\* exported.
CounterReversedOnWire ==
    /\ (call.op = "export" /\ call.kind = "prdb" /\ out.ok)
          => Slice(out.val, 32, 48) = Reverse(buf.of.counter)
    /\ (call.op = "parse" /\ call.kind = "prdb" /\ out.ok
        /\ call.variant = "exact")
          => /\ out.val.counter = buf.of.counter
             /\ Slice(buf.data, 32, 48) = Reverse(out.val.counter)

\* C10 happens: a PRDB whose counter is no palindrome was exported and
\* parsed back
CounterReversedSeen ==
    /\ call.op = "parse"
    /\ call.kind = "prdb"
    /\ call.variant = "exact"
    /\ out.ok
    /\ out.val.counter = buf.of.counter
    /\ Reverse(out.val.counter) # out.val.counter
    /\ Slice(buf.data, 32, 48) # out.val.counter

\* C11: sw_key_fuses returns exactly four 32-bit words, each the
\* big-endian value of a 4-byte slice of the 16-byte sw_key, from bytes
\* 12-15 down to bytes 0-3; the key 00 01 .. 0F gives 0x0C0D0E0F,
\* 0x08090A0B, 0x04050607, 0x00010203.
FusesFromHighestOffset ==
    (call.op = "fuses" /\ Len(hdr.sw_key) = 16)
        => /\ out.ok
           /\ Len(out.val) = 4
           /\ \A i \in 1..4 :
                out.val[i] = <<hdr.sw_key[17 - 4 * i] * 256 + hdr.sw_key[18 - 4 * i],
                               hdr.sw_key[19 - 4 * i] * 256 + hdr.sw_key[20 - 4 * i]>>
           /\ hdr.sw_key = Key0
                => out.val = <<<<3085, 3599>>, <<2057, 2571>>, <<1029, 1543>>, <<1, 515>>>>

\* C11 happens: the fuses of the key 00 01 .. 0F were read
FusesSeen ==
    /\ call.op = "fuses"
    /\ hdr.sw_key = Key0
    /\ out.ok
    /\ out.val[1] = <<3085, 3599>>
    /\ out.val[4] = <<1, 515>>

\* start < start + length <= 0xFFFFFFFF, level in 0..3, start or length a
\* multiple of 1024
FacRegionValid(start, length, level) ==
    /\ WLt(start, WAdd(start, length))
    /\ WLe(WAdd(start, length), <<65535, 65535>>)
    /\ level \in {<<0, 0>>, <<0, 1>>, <<0, 2>>, <<0, 3>>}
    /\ (start[2] % 1024 = 0 \/ length[2] % 1024 = 0)

\* C12: constructing (and so validating) a BeeFacRegion succeeds if and
\* only if start < start + length <= 0xFFFFFFFF, protected_level is in
\* 0..3 and at least one of start and length is a multiple of 1024;
\* (0x1001, 0x1001) is rejected and (0x1000, 0x1001) is accepted.
FacRegionValidIff ==
    call.op = "new_fac"
        => /\ out.ok <=> FacRegionValid(call.args[1], call.args[2], call.args[3])
           /\ out.ok => out.val = [start_addr |-> call.args[1], length |-> call.args[2],
                                   protected_level |-> call.args[3]]
           /\ ~out.ok => out.type = "SPSDKError"
           /\ (call.args[1] = <<0, 4097>> /\ call.args[2] = <<0, 4097>>) => ~out.ok
           /\ (call.args = <<<<0, 4096>>, <<0, 4097>>, <<0, 0>>>>) => out.ok

\* C12 happens: the region (0x1000, 0x1001) was constructed
FacRegionAcceptedSeen ==
    /\ call.op = "new_fac"
    /\ call.args[1] = <<0, 4096>>
    /\ call.args[2] = <<0, 4097>>
    /\ out.ok
    /\ out.val.length = <<0, 4097>>

\* the k-th region is the one encrypt_block finds for the address (no
\* region before it holds the address) and the block ends beyond its end
EndsBeyondRegion(facs, k, addr, n) ==
    /\ InRange(facs[k], addr)
    /\ \A j \in 1..(k - 1) : ~InRange(facs[j], addr)
    /\ WLt(FacEnd(facs[k]), WAdd(addr, <<0, n>>))

\* C13: encrypt_block of a PRDB in CTR mode, given a 16-byte key and a
\* block of at most 1024 bytes, fails with SPSDKError "Invalid range of
\* region" and returns no data whenever the address lies in a FAC region
\* and address + len(block) exceeds the end of that region.
RangeErrorBeyondRegion ==
    (/\ call.op = "encrypt"
     /\ hdr.prdb.mode = AesModeCTR
     /\ Len(hdr.sw_key) = 16
     /\ Len(call.data) <= BEE_ENCR_BLOCK_SIZE
     /\ \E k \in 1..Len(hdr.prdb.fac_regions) :
            EndsBeyondRegion(hdr.prdb.fac_regions, k, call.addr, Len(call.data)))
        => /\ ~out.ok
           /\ out.type = "SPSDKError"
           /\ out.msg = "Invalid range of region"
           /\ out.val = <<>>

\* C13 happens: 1024 bytes at 0x1200 in [0x1000, 0x1400) were refused
RangeErrorSeen ==
    /\ call.op = "encrypt"
    /\ call.addr = W(4608)
    /\ Len(call.data) = BEE_ENCR_BLOCK_SIZE
    /\ Len(hdr.prdb.fac_regions) >= 1
    /\ hdr.prdb.fac_regions[1] = FacOf(R1)
    /\ out.msg = "Invalid range of region"

\* C14 as stated: encrypt_block fails with the key error whenever the key
\* is not 16 bytes long and with the mode error whenever the PRDB is not
\* in CTR mode, for every address and block.
KeyAndModeErrorsAlways ==
    call.op = "encrypt"
        => /\ Len(hdr.sw_key) # 16
                => (~out.ok /\ out.msg = "Invalid length of key")
           /\ hdr.prdb.mode # AesModeCTR
                => (~out.ok /\ out.msg = "only AES/CTR encryption mode supported now")

\* C14 amended: a block over 1024 bytes fails with the length error; else,
\* for an address in [start_addr, end_addr) of the PRDB, encrypt_block
\* fails with the mode error when the PRDB is not in CTR mode and with the
\* key error when it is and the key is not 16 bytes long; for an address
\* outside [start_addr, end_addr) it returns the block unchanged whatever
\* the key and the mode.
KeyAndModeErrorsInsideSpan ==
    call.op = "encrypt"
        => IF Len(call.data) > BEE_ENCR_BLOCK_SIZE
           THEN ~out.ok /\ out.msg = "Incorrect length of binary block to be encrypted"
           ELSE IF WLe(hdr.prdb.start_addr, call.addr) /\ WLt(call.addr, hdr.prdb.end_addr)
           THEN /\ hdr.prdb.mode # AesModeCTR
                    => (~out.ok /\ out.type = "SPSDKError"
                        /\ out.msg = "only AES/CTR encryption mode supported now")
                /\ (hdr.prdb.mode = AesModeCTR /\ Len(hdr.sw_key) # 16)
                    => (~out.ok /\ out.type = "SPSDKError"
                        /\ out.msg = "Invalid length of key")
           ELSE out.ok /\ out.val = call.data

\* C14 happens: a PRDB in ECB mode holding [0x1000, 0x1400) returned the
\* block at 0x0C00 unchanged
NoModeErrorOutsideSpanSeen ==
    /\ call.op = "encrypt"
    /\ hdr.prdb.mode = AesModeECB
    /\ Len(hdr.prdb.fac_regions) = 1
    /\ hdr.prdb.fac_regions[1] = FacOf(R1)
    /\ call.addr = W(3072)
    /\ Len(call.data) = BEE_ENCR_BLOCK_SIZE
    /\ out.ok
    /\ out.val = call.data

\* the start address is the least region start and the end address the
\* greatest region end
SpanIsMinMax(prdb) ==
    /\ \E k \in 1..Len(prdb.fac_regions) :
          prdb.start_addr = prdb.fac_regions[k].start_addr
    /\ \A k \in 1..Len(prdb.fac_regions) :
          WLe(prdb.start_addr, prdb.fac_regions[k].start_addr)
    /\ \E k \in 1..Len(prdb.fac_regions) :
          prdb.end_addr = WAdd(prdb.fac_regions[k].start_addr,
                               prdb.fac_regions[k].length)
    /\ \A k \in 1..Len(prdb.fac_regions) :
          WLe(WAdd(prdb.fac_regions[k].start_addr, prdb.fac_regions[k].length),
              prdb.end_addr)

\* C15: after every add_fac, on a constructed PRDB or on one that parse
\* returned, and in every PRDB that parse returns, start_addr is the least
\* region start and end_addr the greatest region end, whatever start and
\* end address the parsed bytes stored.
SpanRederived ==
    /\ call.op = "add_fac" => SpanIsMinMax(hdr.prdb)
    /\ (call.op = "parse" /\ call.kind = "prdb" /\ out.ok) => SpanIsMinMax(out.val)
    /\ (call.op = "parse" /\ call.kind = "hdr" /\ out.ok) => SpanIsMinMax(out.val.prdb)

\* C15 happens: a PRDB parsed from bytes storing start 1 and end 2 had a
\* region added and spans [0x1000, 0x1C00)
SpanRederivedSeen ==
    /\ call.op = "add_fac"
    /\ call.from = "span"
    /\ Len(hdr.prdb.fac_regions) = 3
    /\ hdr.prdb.start_addr = W(4096)
    /\ hdr.prdb.end_addr = W(7168)

\* C16: add_fac validates again, so after every add_fac that returned the
\* PRDB holds 1 to 4 regions, each of them valid; a fifth region fails at
\* the add_fac call itself.
AddFacRevalidates ==
    (call.op = "add_fac" /\ out.ok)
        => /\ Len(hdr.prdb.fac_regions) >= 1
           /\ Len(hdr.prdb.fac_regions) <= FAC_REGIONS
           /\ FacsValidate(hdr.prdb.fac_regions, 1) = ""

\* C17: no step of export_image changes the input image, the base address
\* of the BeeNxp, or the regions, keys and counter of its headers: they
\* are the same after any number of calls, returned or raised.
ExportImageKeepsInputs ==
    [][(pc \in {"built", "exported", "export_failed"}
        /\ pc' \in {"built", "exported", "export_failed"})
          => /\ input_image' = input_image
             /\ image_base' = image_base
             /\ bee_headers' = bee_headers
             /\ prdbs' = prdbs
             /\ kibs' = kibs]_vars

\* C17 happens: the second call returned an image that differs from its input
ExportedTwiceSeen ==
    /\ pc = "exported"
    /\ calls = 1
    /\ Len(input_image) > BEE_ENCR_BLOCK_SIZE
    /\ Len(encrypted_data) = Len(input_image)
    /\ encrypted_data # input_image

\* the message validate() raises for an object of the kind, "" for none
ValidateOf(kind, x) ==
    IF kind = "fac" THEN FacValidate(x)
    ELSE IF kind = "kib" THEN KibValidate(x)
    ELSE IF kind = "prdb" THEN PrdbValidate(x)
    ELSE HdrValidate(x)

\* the size of the exported bytes of the kind
SizeOf(kind) ==
    IF kind = "fac" THEN FAC_SIZE
    ELSE IF kind = "kib" THEN KIB_SIZE
    ELSE IF kind = "prdb" THEN PRDB_SIZE
    ELSE HEADER_SIZE

\* C18: no partial result. export() of a region, KIB, PRDB or header
\* returns all the bytes of its size or raises and returns nothing; parse
\* returns an object on which validate() passes or raises and returns
\* nothing; export_image returns an output that covers the whole image or
\* raises.
NoPartialResult ==
    /\ (pc = "object" /\ call.op = "export")
         => IF out.ok
            THEN Len(out.val) = SizeOf(call.kind)
            ELSE out.val = <<>> /\ out.type # ""
    /\ (pc = "object" /\ call.op = "parse")
         => IF out.ok
            THEN ValidateOf(call.kind, out.val) = ""
            ELSE out.val = <<>> /\ out.type # ""
    /\ pc = "exported"
         => /\ err = NoErr
            /\ offset = Len(input_image)
            /\ Len(encrypted_data) >= Len(input_image)
    /\ pc = "export_failed" => err # NoErr

\* C18 happens: parse of PRDB bytes that store the region count 0 raised
\* from validate() and returned nothing
NoPartialResultSeen ==
    /\ pc = "object"
    /\ call.op = "parse"
    /\ call.kind = "prdb"
    /\ call.variant = "count0"
    /\ ~out.ok
    /\ out.msg = "Invalid FAC regions"
    /\ out.val = <<>>

\* the 512 bytes of one header: the encrypted KIB, 96 zero bytes, the
\* encrypted PRDB, 128 zero bytes, and sw_key nowhere in them
BlobLayout(blob, sw_key, kib, prdb_data) ==
    /\ Len(blob) = 512
    /\ Slice(blob, 0, 32) = AesEcbEncrypt(sw_key, kib.kib_key \o kib.kib_iv)
    /\ Slice(blob, 32, 128) = Zeros(96)
    /\ Len(prdb_data) = 256
    /\ Slice(blob, 128, 384) = AesCbcEncrypt(kib.kib_key, kib.kib_iv, prdb_data)
    /\ Slice(blob, 384, 512) = Zeros(128)
    /\ \A k \in 0..(512 - 16) : Slice(blob, k, k + 16) # sw_key

\* C19: export_headers returns one blob for each selected engine, in the
\* order of the selection; each is 512 bytes: the KIB encrypted with the
\* user key of that engine in [0, 32), zeros in [32, 128), the 256 bytes of
\* the PRDB encrypted in [128, 384), zeros in [384, 512); the key is not
\* in the blob.
HeadersBlobLayout ==
    pc = "headers_exported"
        => /\ out.ok
           /\ Len(out.val) = Len(EngineSelections(config.engine_selection))
           /\ \A j \in 1..Len(out.val) :
                /\ bee_headers[j].sw_key =
                     config.bee_engine[EngineSelections(config.engine_selection)[j] + 1].user_key
                /\ BlobLayout(out.val[j],
                     config.bee_engine[EngineSelections(config.engine_selection)[j] + 1].user_key,
                     kibs[bee_headers[j].kib],
                     PrdbExport(prdbs[bee_headers[j].prdb]).val)

\* C19 happens: both engines selected, two blobs returned, the KIB parts
\* encrypted with different keys
HeadersBlobsSeen ==
    /\ pc = "headers_exported"
    /\ config.engine_selection = "both"
    /\ Len(out.val) = 2
    /\ Slice(out.val[1], 0, 32) # Slice(out.val[2], 0, 32)

\* the bytes handed to the last parse, from its offset on
ParsedBytes ==
    Slice(ParseData(call.variant, buf.data), ParseOffset(call.variant),
          Len(ParseData(call.variant, buf.data)))

\* parse raised SPSDKError with the message
RaisedFormat(msg) == ~out.ok /\ out.type = "SPSDKError" /\ out.msg = msg

\* C20: BeeProtectRegionBlock.parse raises SPSDKError for fewer than 256
\* bytes, for a low tag other than 54 41 47 5F or a high tag other than
\* 45 48 44 52, for a version other than 00 00 01 56 and for a reserved
\* area [48, 80) that is not all zero; a PRDB it returns holds 1 to 4
\* regions, is in CTR mode, and the last four bytes of its counter are zero.
PrdbParseRejects ==
    (call.op = "parse" /\ call.kind = "prdb")
        => /\ IF Len(ParsedBytes) < 256
              THEN RaisedFormat("Insufficient size of the data")
              ELSE IF \/ Slice(ParsedBytes, 0, 4) # <<84, 65, 71, 95>>
                      \/ Slice(ParsedBytes, 4, 8) # <<69, 72, 68, 82>>
              THEN RaisedFormat("Invalid tag or unsupported version")
              ELSE IF Slice(ParsedBytes, 8, 12) # <<0, 0, 1, 86>>
              THEN RaisedFormat("Unsupported version")
              ELSE IF \E k \in 49..80 : ParsedBytes[k] # 0
              THEN RaisedFormat("Reserved area is non-zero")
              ELSE IF \/ Slice(ParsedBytes, 12, 16) \notin
                            {<<1, 0, 0, 0>>, <<2, 0, 0, 0>>, <<3, 0, 0, 0>>, <<4, 0, 0, 0>>}
                      \/ Slice(ParsedBytes, 24, 28) # <<1, 0, 0, 0>>
                      \/ Slice(ParsedBytes, 32, 36) # <<0, 0, 0, 0>>
              THEN ~out.ok /\ out.type = "SPSDKError"
              ELSE TRUE
           /\ out.ok
                => /\ Len(out.val.fac_regions) >= 1
                   /\ Len(out.val.fac_regions) <= 4
                   /\ out.val.mode = AesModeCTR
                   /\ Len(out.val.counter) = 16
                   /\ \A k \in 13..16 : out.val.counter[k] = 0

\* C20 happens: the bytes of a PRDB of two regions with the last byte of
\* the reserved area set to 1 were rejected
PrdbParseRejectsSeen ==
    /\ call.op = "parse"
    /\ call.kind = "prdb"
    /\ call.variant = "reserved"
    /\ Len(buf.of.fac_regions) = 2
    /\ ParsedBytes[80] = 1
    /\ RaisedFormat("Reserved area is non-zero")

\* C21 as stated: a second encrypt_block with the same header, address
\* and block, and a second export_image on the same BeeNxp, give what the
\* first gave, for blocks and images of any length.
SecondCallSameOutput ==
    [][/\ (pc = "object" /\ call'.op = "encrypt" /\ call'.again)
            => out' = call'.first
       /\ (pc = "built" /\ pc' = "exported" /\ calls >= 1 /\ out.ok)
            => out' = out]_vars

\* a and b have the same length and the same first n bytes, and are the
\* same when n is a multiple of 16
SameButPadding(a, b, n) ==
    /\ Len(a) = Len(b)
    /\ \A k \in 1..n : k <= Len(a) => a[k] = b[k]
    /\ n % 16 = 0 => a = b

\* C21 amended: a second call raises what the first raised, or returns
\* bytes of the same length that agree with the first on every byte of
\* the block or image given; they are identical when that length is a
\* multiple of 16, else the bytes after it, encrypted random padding, may
\* differ.
SecondCallSameButPadding ==
    [][/\ (pc = "object" /\ call'.op = "encrypt" /\ call'.again)
            => IF call'.first.ok
               THEN out'.ok /\ SameButPadding(out'.val, call'.first.val, Len(call'.data))
               ELSE out' = call'.first
       /\ (pc = "built" /\ pc' = "exported" /\ calls >= 1 /\ out.ok)
            => SameButPadding(out'.val, out.val, Len(input_image))
       /\ (pc = "built" /\ pc' = "export_failed" /\ calls >= 1)
            => out' = out]_vars

\* C21 happens: a second encrypt_block of 452 bytes in a region returned
\* 464 bytes that differ from the first in the padding only
PaddingDiffersSeen ==
    /\ pc = "object"
    /\ call.op = "encrypt"
    /\ call.again
    /\ Len(call.data) = 452
    /\ call.first.ok
    /\ out.ok
    /\ Len(out.val) = 464
    /\ out.val # call.first.val
    /\ Slice(out.val, 0, 452) = Slice(call.first.val, 0, 452)
    /\ Slice(out.val, 0, 452) # call.data

\* the window of the image at offset woff passed through the headers on
\* its own, at address image_base + woff
WindowAlone(woff, fill) ==
    EncryptChain(bee_headers, prdbs, kibs, 1, WAdd(image_base, W(woff)), fill,
                 <<Slice(input_image, woff, woff + BEE_ENCR_BLOCK_SIZE)>>)

\* the offset of the window last taken when it went through
LastWindow == BEE_ENCR_BLOCK_SIZE * ((offset - 1) \div BEE_ENCR_BLOCK_SIZE)

\* C22: what export_image makes of a window is what the headers make of
\* that window alone at its absolute address, and it is placed in the
\* output at the window's offset; a window that fails in the walk fails
\* alone.  So the windows can be taken in any order and put together by
\* address.
WindowsIndependent ==
    /\ (pc \in {"built", "exported"} /\ steps # <<>>)
         => /\ \E fill \in PadBytes : WindowAlone(LastWindow, fill) = Ok(steps)
            /\ SubSeq(encrypted_data, LastWindow + 1, LastWindow + Len(steps[Len(steps)]))
                 = steps[Len(steps)]
            /\ Len(encrypted_data) = LastWindow + Len(steps[Len(steps)])
    /\ pc = "export_failed"
         => \A fill \in PadBytes : ~WindowAlone(offset, fill).ok

\* C22 happens: the second window, at 0x1400, went through encrypted after
\* the first, at 0x1000
SecondWindowAloneSeen ==
    /\ pc = "built"
    /\ offset = 2 * BEE_ENCR_BLOCK_SIZE
    /\ image_base = W(4096)
    /\ steps # <<>>
    /\ steps[Len(steps)] # steps[1]
    /\ SubSeq(encrypted_data, 1, BEE_ENCR_BLOCK_SIZE) # SubSeq(input_image, 1, BEE_ENCR_BLOCK_SIZE)

\* both engines are selected and neither entry names a header file
BothFresh ==
    /\ config.engine_selection = "both"
    /\ Len(config.bee_engine) = 2
    /\ config.bee_engine[1].header_path = ""
    /\ config.bee_engine[2].header_path = ""

\* C23: the two fresh headers made for the selection "both" hold one PRDB
\* and one KIB: the same counter, KIB key and IV and region list at every
\* moment, and their exported headers are equal in the encrypted PRDB and
\* differ only in the KIB part, each the one KIB under the user key of its
\* engine.
FreshHeadersShare ==
    (BothFresh /\ pc \notin {"load", "failed"})
        => /\ Len(bee_headers) = 2
           /\ bee_headers[1].prdb = bee_headers[2].prdb
           /\ bee_headers[1].kib = bee_headers[2].kib
           /\ prdbs[bee_headers[1].prdb].counter = prdbs[bee_headers[2].prdb].counter
           /\ prdbs[bee_headers[1].prdb].fac_regions = prdbs[bee_headers[2].prdb].fac_regions
           /\ kibs[bee_headers[1].kib] = kibs[bee_headers[2].kib]
           /\ pc = "headers_exported"
                => /\ Slice(out.val[1], 32, 512) = Slice(out.val[2], 32, 512)
                   /\ \A j \in 1..2 :
                        Slice(out.val[j], 0, 32)
                          = AesEcbEncrypt(config.bee_engine[j].user_key,
                                          kibs[bee_headers[1].kib].kib_key
                                          \o kibs[bee_headers[1].kib].kib_iv)

\* C23 happens: two fresh headers with different user keys and a region
\* listed for each engine were exported
FreshHeadersShareSeen ==
    /\ BothFresh
    /\ pc = "headers_exported"
    /\ config.bee_engine[1].user_key # config.bee_engine[2].user_key
    /\ Len(config.bee_engine[1].protected_region) = 1
    /\ Len(config.bee_engine[2].protected_region) = 1
    /\ Len(prdbs[bee_headers[2].prdb].fac_regions) = 2
    /\ out.val[1] # out.val[2]

\* some byte of the window of the image at offset woff has its address
\* inside a region held by a header
WindowTouchesRegion(woff) ==
    \E x \in HeldRegions :
        /\ WLt(prdbs[x[1]].fac_regions[x[2]].start_addr,
               WAdd(image_base, W(IF woff + BEE_ENCR_BLOCK_SIZE < Len(input_image)
                                  THEN woff + BEE_ENCR_BLOCK_SIZE ELSE Len(input_image))))
        /\ WLt(WAdd(image_base, W(woff)), FacEnd(prdbs[x[1]].fac_regions[x[2]]))

\* the offsets of the windows of the image
WindowOffsets ==
    {BEE_ENCR_BLOCK_SIZE * w : w \in 0..((Len(input_image) - 1) \div BEE_ENCR_BLOCK_SIZE)}

\* C24: when export_image has returned, every window holding a byte whose
\* address is inside a region of some header was emitted encrypted, not
\* as the plaintext it was.
NoPlaintextInRegion ==
    pc = "exported"
        => \A woff \in WindowOffsets :
              WindowTouchesRegion(woff)
                => Slice(encrypted_data, woff, woff + BEE_ENCR_BLOCK_SIZE)
                     # Slice(input_image, woff, woff + BEE_ENCR_BLOCK_SIZE)

\* the base address and the start and length of every held region are
\* multiples of 1024, and no two held regions intersect
AllAligned ==
    /\ image_base[2] % BEE_ENCR_BLOCK_SIZE = 0
    /\ \A x \in HeldRegions :
          /\ prdbs[x[1]].fac_regions[x[2]].start_addr[2] % BEE_ENCR_BLOCK_SIZE = 0
          /\ prdbs[x[1]].fac_regions[x[2]].length[2] % BEE_ENCR_BLOCK_SIZE = 0
    /\ \A x \in HeldRegions, y \in HeldRegions :
          x # y => Disjoint(prdbs[x[1]].fac_regions[x[2]], prdbs[y[1]].fac_regions[y[2]])

\* the end of the window of the image at offset woff
WindowEnd(woff) ==
    IF woff + BEE_ENCR_BLOCK_SIZE < Len(input_image)
    THEN woff + BEE_ENCR_BLOCK_SIZE ELSE Len(input_image)

\* C25: with the base address and every region start and length a
\* multiple of 1024 and no two regions intersecting, every window that
\* starts inside a region ends at or before the end of that region, and
\* export_image does not raise "Invalid range of region".
AlignedNeverOutOfRange ==
    (Built /\ AllAligned)
        => /\ \A woff \in WindowOffsets, x \in HeldRegions :
                InRange(prdbs[x[1]].fac_regions[x[2]], WAdd(image_base, W(woff)))
                  => WLe(WAdd(image_base, W(WindowEnd(woff))),
                         FacEnd(prdbs[x[1]].fac_regions[x[2]]))
           /\ err.msg # "Invalid range of region"

\* C25 happens: an image of 1476 bytes at 0x1000 was exported through
\* headers holding [0x1000, 0x1400) and [0x1400, 0x1800), both windows
\* encrypted
AlignedExportedSeen ==
    /\ pc = "exported"
    /\ AllAligned
    /\ image_base = W(4096)
    /\ Len(input_image) = 1476
    /\ \E x \in HeldRegions : prdbs[x[1]].fac_regions[x[2]] = FacOf(R1)
    /\ \E x \in HeldRegions : prdbs[x[1]].fac_regions[x[2]] = FacOf(R4)
    /\ Len(encrypted_data) = 1488
    /\ \A woff \in WindowOffsets :
          Slice(encrypted_data, woff, woff + 16) # Slice(input_image, woff, woff + 16)

\* the offset of the last window of the image
LastOffset == BEE_ENCR_BLOCK_SIZE * ((Len(input_image) - 1) \div BEE_ENCR_BLOCK_SIZE)

\* the bytes that bring n up to the next multiple of 16
PadTo16(n) == (16 - (n % 16)) % 16

\* C26: the running address of every window is the base address plus the
\* offset of the window; the image returned has the length of the input,
\* or, when the last window starts in a region and its length is no
\* multiple of 16, that length plus the padding of the last window to the
\* next multiple of 16; it is never shorter than the input and begins with
\* the output of the windows before the last at their offsets.
OutputLength ==
    /\ (pc \in {"built", "export_failed"} /\ offset < Len(input_image))
         => /\ base_address = WAdd(image_base, W(offset))
            /\ Len(encrypted_data) = offset
            /\ offset % BEE_ENCR_BLOCK_SIZE = 0
    /\ pc = "exported"
         => /\ Len(encrypted_data) >= Len(input_image)
            /\ Len(encrypted_data) =
                 (IF InSomeRegion(WAdd(image_base, W(LastOffset)))
                  THEN Len(input_image) + PadTo16(Len(input_image) - LastOffset)
                  ELSE Len(input_image))

\* C26 happens: 1476 bytes whose last window, 452 bytes at 0x1400, is in a
\* region came out as 1488 bytes
OutputPaddedSeen ==
    /\ pc = "exported"
    /\ image_base = W(4096)
    /\ Len(input_image) = 1476
    /\ InSomeRegion(W(5120))
    /\ Len(encrypted_data) = 1488

\* ---------------------------------------------------------------------------------
\* tools/task_scheduler.py: TaskInfo, TaskList and PrettyProcessRunner.run
\* ---------------------------------------------------------------------------------

\* The largest concurrent_runs that run is called with.
MaxRuns == 3

\* TaskInfo.__init__: a new task is READY and has no exception.
TaskInfo(name, dependencies, inherit_failure) ==
    [name |-> name, dependencies |-> dependencies, inherit_failure |-> inherit_failure,
     status |-> "READY", exception |-> FALSE]

\* The tasks the lists are made of: "a" depends on nothing, "b" on nothing or on "a",
\* "c" on "a", on "b" or on both. They inherit failure (the default); one "c" that
\* depends on "a" does not.
TaskPool ==
    {TaskInfo("a", <<>>, TRUE)}
    \cup { TaskInfo("b", d, TRUE) : d \in {<<>>, <<"a">>} }
    \cup { TaskInfo("c", d, TRUE) : d \in {<<"a">>, <<"b">>, <<"a", "b">>} }
    \cup {TaskInfo("c", <<"a">>, FALSE)}

TaskNames == { t.name : t \in TaskPool }

\* The lists of n tasks of the pool with different names, in every order.
TaskListsOf(n) ==
    { Bytes(l) : l \in { f \in [1..n -> TaskPool] :
                            \A i, j \in 1..n : f[i].name = f[j].name => i = j } }

\* TaskList(iterable): the lists a TaskList is constructed from or extended with.
\* The constructor of list does not call extend: every task keeps its READY.
TaskLists == UNION { TaskListsOf(n) : n \in 0..Cardinality(TaskNames) }

\* The lists whose tasks have none of the names ns.
ListsWithout ==
    [ns \in SUBSET TaskNames |-> { l \in TaskLists : \A j \in 1..Len(l) : l[j].name \notin ns }]

\* The names of the tasks of ts.
NamesOf(ts) == { ts[i].name : i \in 1..Len(ts) }

\* TaskList.get_task_by_name: the first task of the list with that name, 0 when
\* there is none (the code raises SPSDKError).
TaskIndex(ts, name) ==
    IF \E i \in 1..Len(ts) : ts[i].name = name
    THEN CHOOSE i \in 1..Len(ts) : ts[i].name = name /\ \A j \in 1..(i - 1) : ts[j].name # name
    ELSE 0

\* What a finished future may hold, as _user_task_done_callback reads it (lines
\* 345-349): [error_count, exc], error_count -1 when there is no result.
Outcomes == { [error_count |-> 0, exc |-> FALSE], [error_count |-> -1, exc |-> FALSE],
              [error_count |-> 1, exc |-> FALSE], [error_count |-> -1, exc |-> TRUE] }

\* line 127 of finish_task
Passed(o) == IF o.error_count # -1 THEN ~o.exc /\ o.error_count = 0 ELSE ~o.exc

\* TaskInfo.finish_task(result, exc)
FinishTask(ts, i, o) ==
    IF ts[i].status # "RUNNING" THEN Raise("SPSDKError", "The task is not running.")
    ELSE Ok([ts EXCEPT ![i].status = IF Passed(o) THEN "PASSED" ELSE "FAILED",
                       ![i].exception = o.exc])

\* What check_dependencies gives: the state it returns, or the message of the
\* SPSDKError it raises (ok is FALSE). finished counts the calls of finish_task that
\* the executor's thread has made since check_dependencies was entered.
Returned(st, finished) == [ok |-> TRUE, st |-> st, msg |-> "", finished |-> finished]
NotFound(name, finished) ==
    [ok |-> FALSE, st |-> "", msg |-> "Task " \o name \o " not found in list.",
     finished |-> finished]

\* The status of task d as check_dependencies reads it: js are the RUNNING tasks
\* that the executor's thread finishes meanwhile, in that order, os[m] is what the
\* future of js[m] holds, and the first `finished` of them are set.
StatusRead(ts, d, js, os, finished) ==
    IF \E m \in 1..finished : js[m] = d
    THEN FinishTask(ts, d, os[CHOOSE m \in 1..finished : js[m] = d]).val[d].status
    ELSE ts[d].status

RECURSIVE CheckDependencies(_, _, _, _, _, _)

\* check_dependencies, lines 254-255 for task d, the k-th of deps, and on to the next
\* dependency: the executor's thread may have finished more tasks since the read of
\* line 251, n1 were finished then.
SecondRead(ts, deps, k, d, js, os, n1) ==
    UNION { IF StatusRead(ts, d, js, os, n2) \in {"READY", "RUNNING"}
            THEN {Returned("BLOCKED", n2)}
            ELSE CheckDependencies(ts, deps, k + 1, js, os, n2) : n2 \in n1..Len(js) }

\* check_dependencies, lines 248-252 for task d, the k-th of deps: r is what
\* check_dependencies gave for the dependencies of d (line 247). The status of d is
\* read twice, at 251 and at 254, and the executor's thread may finish tasks before
\* each read.
FirstRead(ts, deps, k, d, js, os, r) ==
    IF ~r.ok \/ r.st \in {"BLOCKED", "FAILED"} THEN {r}
    ELSE UNION { IF StatusRead(ts, d, js, os, n1) = "FAILED"
                 THEN {Returned("FAILED", n1)}
                 ELSE SecondRead(ts, deps, k, d, js, os, n1) : n1 \in r.finished..Len(js) }

\* TaskList.check_dependencies(deps), from the k-th dependency on: what it can give,
\* one result when no task is finished meanwhile (js is empty). get_task_by_name
\* raises SPSDKError, which the except ValueError of line 245 does not catch.
CheckDependencies(ts, deps, k, js, os, finished) ==
    IF k > Len(deps) THEN {Returned("READY", finished)}
    ELSE IF TaskIndex(ts, deps[k]) = 0 THEN {NotFound(deps[k], finished)}
    ELSE UNION { FirstRead(ts, deps, k, d, js, os, r) :
                   d \in {TaskIndex(ts, deps[k])},
                   r \in CheckDependencies(ts, ts[TaskIndex(ts, deps[k])].dependencies, 1,
                                           js, os, finished) }

\* _set_task_states, lines 206-211 for task i: depend_state is what
\* check_dependencies returned.
TaskStateSet(ts, i, depend_state) ==
    IF depend_state # "FAILED" THEN [ts EXCEPT ![i].status = depend_state]
    ELSE IF ts[i].inherit_failure
         THEN [ts EXCEPT ![i].status = "FAILED", ![i].exception = TRUE]
         ELSE [ts EXCEPT ![i].status = "READY"]

\* _set_task_states, the body of the loop for task i (lines 204-211): the list with
\* the state of task i set, or the SPSDKError of check_dependencies.
TaskStateChecked(ts, i, c) ==
    IF c.ok THEN Ok(TaskStateSet(ts, i, c.st)) ELSE Raise("SPSDKError", c.msg)

SetTaskState(ts, i) ==
    IF ts[i].status \in {"READY", "BLOCKED"}
    THEN CHOOSE r \in { TaskStateChecked(ts, i, c) :
                          c \in CheckDependencies(ts, ts[i].dependencies, 1, <<>>, <<>>, 0) } : TRUE
    ELSE Ok(ts)

RECURSIVE SetTaskStatesFrom(_, _)

\* TaskList._set_task_states with no other thread at work, from task i on: each task
\* sees the states already set. When check_dependencies raises, the tasks from that
\* one on keep their states (val is the list as it is left).
SetTaskStatesNext(ts, i, r) ==
    IF r.ok THEN SetTaskStatesFrom(r.val, i + 1) ELSE [r EXCEPT !.val = ts]

SetTaskStatesFrom(ts, i) ==
    IF i > Len(ts) THEN Ok(ts)
    ELSE CHOOSE n \in { SetTaskStatesNext(ts, i, r) : r \in {SetTaskState(ts, i)} } : TRUE

SetTaskStates(ts) == SetTaskStatesFrom(ts, 1)

\* TaskList.all_finished
AllFinished(ts) == \A i \in 1..Len(ts) : ts[i].status \in {"PASSED", "FAILED"}

\* TaskList.get_running_tasks
RunningTasks(ts) == Cardinality({ i \in 1..Len(ts) : ts[i].status = "RUNNING" })

\* get_ready_task, lines 265-269: the first READY task of the list, 0 for None.
FirstReady(ts) ==
    IF \E i \in 1..Len(ts) : ts[i].status = "READY"
    THEN CHOOSE i \in 1..Len(ts) :
             ts[i].status = "READY" /\ \A j \in 1..(i - 1) : ts[j].status # "READY"
    ELSE 0

\* The second condition of the two scheduling loops of run (lines 307 and 319).
BelowLimitRelaxed(ts, n) == RunningTasks(ts) <= n

BelowLimit(ts, n) == RunningTasks(ts) < n

\* TaskInfo.start_task
StartTask(ts, i) ==
    IF ts[i].status = "FAILED" THEN Raise("SPSDKError", "The task is already failed.")
    ELSE Ok([ts EXCEPT ![i].status = "RUNNING"])

\* No callback is being run by the executor.
NoCallback == [task |-> 0, at |-> "idle"]

\* The variables of the scheduler that a step of the list under construction leaves
\* alone, and those a step of run or of a callback leaves alone.
runVars == <<concurrent_runs, future, futures, rpc, loop, cur, waitset, set_at, cb>>
otherVars == <<loadVars, exportVars, objVars>>

\* run has returned or raised and its executor is shut down: every future is
\* finished and every callback has run (the with statement of line 305 waits).
RunLeft ==
    /\ rpc \in {"done", "raised"}
    /\ cb.at = "idle"
    /\ \A i \in 1..Len(future) : future[i].state # "pending"

\* The thread that owns the list is not in run: before run, and after it. run keeps
\* its caller until it returns, and one call of run is followed.
CallerTurn == rpc = "build" \/ RunLeft

\* TaskList.append and TaskList.extend: the tasks are added, then _set_task_states
\* runs; r is what it gave. When it raises, the list keeps the tasks added and the
\* states set so far, and the caller has the exception.
Added(r) ==
    /\ tasks' = r.val
    /\ raised' = r.msg

\* tasks.append(t), before run or after it
AppendTask(t) ==
    /\ pc = "sched"
    /\ CallerTurn
    /\ \A i \in 1..Len(tasks) : tasks[i].name # t.name
    /\ \E r \in {SetTaskStates(Append(tasks, t))} : Added(r)
    /\ UNCHANGED <<runVars, otherVars>>

\* tasks.extend(l), before run or after it; l may be empty
ExtendList(l) ==
    /\ pc = "sched"
    /\ CallerTurn
    /\ \A i \in 1..Len(tasks), j \in 1..Len(l) : tasks[i].name # l[j].name
    /\ \E r \in {SetTaskStates(tasks \o l)} : Added(r)
    /\ UNCHANGED <<runVars, otherVars>>

\* tasks[i].reset(), before run or after it: the state is READY again, the exception
\* recorded is kept.
ResetTask(i) ==
    /\ pc = "sched"
    /\ CallerTurn
    /\ i <= Len(tasks)
    /\ tasks' = [tasks EXCEPT ![i].status = "READY"]
    /\ UNCHANGED <<raised, runVars, otherVars>>

\* PrettyProcessRunner(tasks).run(n) is entered: lines 302-305
Run(n) ==
    /\ pc = "sched"
    /\ rpc = "build"
    /\ concurrent_runs' = n
    /\ future' = [i \in 1..Len(tasks) |-> [state |-> "none", callback |-> FALSE]]
    /\ rpc' = "loop"
    /\ loop' = "first"
    /\ raised' = ""
    /\ UNCHANGED <<tasks, futures, cur, waitset, set_at, cb, otherVars>>

\* run, the first condition of a scheduling loop (lines 307 and 318): not
\* self.tasks.all_finished()
LoopAllFinished ==
    /\ pc = "sched"
    /\ rpc = "loop"
    /\ rpc' = IF AllFinished(tasks) THEN "outer" ELSE "count"
    /\ UNCHANGED <<tasks, concurrent_runs, future, futures, loop, cur, waitset, set_at, cb,
                   raised, otherVars>>

\* run, the second condition of a scheduling loop (lines 307 and 319):
\* self.tasks.get_running_tasks() < concurrent_runs; get_ready_task is entered
LoopRunning ==
    /\ pc = "sched"
    /\ rpc = "count"
    /\ IF BelowLimit(tasks, concurrent_runs)
       THEN rpc' = "set" /\ set_at' = 1
       ELSE rpc' = "outer" /\ UNCHANGED set_at
    /\ UNCHANGED <<tasks, concurrent_runs, future, futures, loop, cur, waitset, cb,
                   raised, otherVars>>

\* The state of task `at` is set, r is what the body of the loop gave; an SPSDKError
\* leaves run.
TaskStateDone(r) ==
    IF r.ok
    THEN /\ tasks' = r.val
         /\ set_at' = set_at + 1
         /\ UNCHANGED <<rpc, raised>>
    ELSE /\ rpc' = "raised"
         /\ raised' = r.msg
         /\ UNCHANGED <<tasks, set_at>>

\* get_ready_task, _set_task_states (line 264): the body of its loop for one task
SetTaskStateStep ==
    /\ pc = "sched"
    /\ rpc = "set"
    /\ set_at <= Len(tasks)
    /\ \E r \in {SetTaskState(tasks, set_at)} : TaskStateDone(r)
    /\ UNCHANGED <<concurrent_runs, future, futures, loop, cur, waitset, cb, otherVars>>

\* The orders in which RUNNING tasks can be finished by the executor's thread while
\* the thread of run is in one call of check_dependencies: the first is the task whose
\* callback is at line 351, each later one a task whose future is pending with its
\* callback registered and stored in future_set (the method completes, line 350 pops
\* the future and line 351 is reached, all during that call).
FinishOrders ==
    { Bytes(f) : f \in { g \in UNION { [1..n -> 1..Len(tasks)] : n \in 1..Len(tasks) } :
          /\ g[1] = cb.task
          /\ \A m, n \in DOMAIN g : g[m] = g[n] => m = n
          /\ \A m \in DOMAIN g : tasks[g[m]].status = "RUNNING"
          /\ \A m \in DOMAIN g \ {1} :
                 /\ future[g[m]].state = "pending"
                 /\ future[g[m]].callback
                 /\ g[m] \in futures } }

RECURSIVE FinishTasks(_, _, _, _)

\* finish_task of the tasks js[m..]: os[m] is what the future of js[m] holds.
FinishTasks(ts, js, os, m) ==
    IF m > Len(js) THEN ts
    ELSE FinishTasks(FinishTask(ts, js[m], os[m]).val, js, os, m + 1)

\* The futures of the tasks js[2..] are set finished by the executor's thread.
FuturesFinished(fu, js) ==
    [i \in DOMAIN fu |->
        IF \E m \in 2..Len(js) : js[m] = i THEN [fu[i] EXCEPT !.state = "finished"] ELSE fu[i]]

\* The body of the loop for task set_at is done with the tasks js finished
\* meanwhile: ft is the list with them finished, c is what check_dependencies gave.
FinishedDuringCheck(js, ft, c) ==
    /\ c.finished = Len(js)
    /\ IF c.ok
       THEN /\ tasks' = TaskStateSet(ft, set_at, c.st)
            /\ set_at' = set_at + 1
            /\ UNCHANGED <<rpc, raised>>
       ELSE /\ tasks' = ft
            /\ rpc' = "raised"
            /\ raised' = c.msg
            /\ UNCHANGED set_at
    /\ future' = FuturesFinished(future, js)
    /\ futures' = futures \ { js[m] : m \in 2..Len(js) }

\* The body of the loop of _set_task_states for one task while the executor's thread
\* finishes RUNNING tasks (finish_task, line 351) between the reads that
\* check_dependencies makes of the statuses (lines 251 and 254).
SetTaskStateDuringFinish ==
    /\ pc = "sched"
    /\ rpc = "set"
    /\ set_at <= Len(tasks)
    /\ tasks[set_at].status \in {"READY", "BLOCKED"}
    /\ cb.at = "finish"
    /\ \E js \in FinishOrders :
         \E os \in [1..Len(js) -> Outcomes] :
             \E c \in CheckDependencies(tasks, tasks[set_at].dependencies, 1, js, os, 0) :
                 \E ft \in {FinishTasks(tasks, js, os, 1)} : FinishedDuringCheck(js, ft, c)
    /\ cb' = NoCallback
    /\ UNCHANGED <<concurrent_runs, loop, cur, waitset, otherVars>>

\* get_ready_task, lines 265-269, and lines 310-311 (or 322-323): r is the task
\* returned, None leaves the loop
Picked(r) ==
    /\ cur' = r
    /\ rpc' = IF r = 0 THEN "outer" ELSE "start"

PickReady ==
    /\ pc = "sched"
    /\ rpc = "set"
    /\ set_at > Len(tasks)
    /\ Picked(FirstReady(tasks))
    /\ UNCHANGED <<tasks, concurrent_runs, future, futures, loop, waitset, set_at, cb,
                   raised, otherVars>>

\* _schedule_user_task, line 356: r is what task.start_task() gave
TaskStarted(r) ==
    IF r.ok
    THEN /\ tasks' = r.val
         /\ rpc' = "submit"
         /\ UNCHANGED raised
    ELSE /\ rpc' = "raised"
         /\ raised' = r.msg
         /\ UNCHANGED tasks

StartStep ==
    /\ pc = "sched"
    /\ rpc = "start"
    /\ \E r \in {StartTask(tasks, cur)} : TaskStarted(r)
    /\ UNCHANGED <<concurrent_runs, future, futures, loop, cur, waitset, set_at, cb, otherVars>>

\* _schedule_user_task, line 357: executor.submit
Submit ==
    /\ pc = "sched"
    /\ rpc = "submit"
    /\ future' = [future EXCEPT ![cur].state = "pending"]
    /\ rpc' = "add_callback"
    /\ UNCHANGED <<tasks, concurrent_runs, futures, loop, cur, waitset, set_at, cb, raised,
                   otherVars>>

\* _user_task_done_callback called by add_done_callback itself, in the thread of run:
\* o is what the future holds. KeyError of pop and SPSDKError of finish_task are
\* logged and dropped by add_done_callback.
CalledNow(o) ==
    IF cur \in futures
    THEN /\ futures' = futures \ {cur}
         /\ tasks' = IF FinishTask(tasks, cur, o).ok THEN FinishTask(tasks, cur, o).val
                     ELSE tasks
    ELSE UNCHANGED <<tasks, futures>>

\* _schedule_user_task, line 358: future.add_done_callback. A future that is already
\* finished calls the callback at once; future_set does not hold the future yet, pop
\* raises KeyError and finish_task is not reached.
AddCallback ==
    /\ pc = "sched"
    /\ rpc = "add_callback"
    /\ IF future[cur].state = "finished"
       THEN /\ \E o \in Outcomes : CalledNow(o)
            /\ UNCHANGED future
       ELSE /\ future' = [future EXCEPT ![cur].callback = TRUE]
            /\ UNCHANGED <<tasks, futures>>
    /\ rpc' = "store"
    /\ UNCHANGED <<concurrent_runs, loop, cur, waitset, set_at, cb, raised, otherVars>>

\* _schedule_user_task, line 359: future_set[future] = task, and back to the loop
Store ==
    /\ pc = "sched"
    /\ rpc = "store"
    /\ futures' = futures \cup {cur}
    /\ rpc' = "loop"
    /\ UNCHANGED <<tasks, concurrent_runs, future, loop, cur, waitset, set_at, cb, raised,
                   otherVars>>

\* run, line 315: while not self.tasks.all_finished()
Outer ==
    /\ pc = "sched"
    /\ rpc = "outer"
    /\ rpc' = IF AllFinished(tasks) THEN "done" ELSE "wait"
    /\ UNCHANGED <<tasks, concurrent_runs, future, futures, loop, cur, waitset, set_at, cb,
                   raised, otherVars>>

\* run, line 316: concurrent.futures.wait(futures, FIRST_COMPLETED) takes set(futures)
Wait ==
    /\ pc = "sched"
    /\ rpc = "wait"
    /\ waitset' = futures
    /\ rpc' = "waiting"
    /\ UNCHANGED <<tasks, concurrent_runs, future, futures, loop, cur, set_at, cb, raised,
                   otherVars>>

\* concurrent.futures.wait returns: one of the futures it was given is finished, or
\* it was given none; the inner loop is entered (line 317)
WaitReturn ==
    /\ pc = "sched"
    /\ rpc = "waiting"
    /\ waitset = {} \/ \E i \in waitset : future[i].state = "finished"
    /\ rpc' = "loop"
    /\ loop' = "inner"
    /\ UNCHANGED <<tasks, concurrent_runs, future, futures, cur, waitset, set_at, cb, raised,
                   otherVars>>

\* The method of task i completes in its process and the executor's thread, which
\* runs one callback at a time, sets the future finished; when the callback is
\* registered it is called.
Complete(i) ==
    /\ pc = "sched"
    /\ i <= Len(future)
    /\ future[i].state = "pending"
    /\ cb.at = "idle"
    /\ future' = [future EXCEPT ![i].state = "finished"]
    /\ IF future[i].callback
       THEN cb' = [task |-> i, at |-> "pop"]
       ELSE UNCHANGED cb
    /\ UNCHANGED <<tasks, concurrent_runs, futures, rpc, loop, cur, waitset, set_at, raised,
                   otherVars>>

\* _user_task_done_callback, line 350: future_set.pop(future). When the future is not
\* in future_set yet, pop raises KeyError, the executor logs it, and line 351 is not
\* reached.
CallbackPop ==
    /\ pc = "sched"
    /\ cb.at = "pop"
    /\ IF cb.task \in futures
       THEN /\ futures' = futures \ {cb.task}
            /\ cb' = [cb EXCEPT !.at = "finish"]
       ELSE /\ cb' = NoCallback
            /\ UNCHANGED futures
    /\ UNCHANGED <<tasks, concurrent_runs, future, rpc, loop, cur, waitset, set_at, raised,
                   otherVars>>

\* _user_task_done_callback, line 351: task.finish_task(result, exc) with what the
\* future holds (lines 345-349); r is what it gave, an SPSDKError is logged by the
\* executor
Finished(r) == tasks' = IF r.ok THEN r.val ELSE tasks

CallbackFinish ==
    /\ pc = "sched"
    /\ cb.at = "finish"
    /\ \E o \in Outcomes : \E r \in {FinishTask(tasks, cb.task, o)} : Finished(r)
    /\ cb' = NoCallback
    /\ UNCHANGED <<concurrent_runs, future, futures, rpc, loop, cur, waitset, set_at, raised,
                   otherVars>>

\* A TaskList is constructed; run is not entered yet.
InitSched ==
    /\ tasks \in TaskLists
    /\ concurrent_runs = 0
    /\ future = <<>>
    /\ futures = {}
    /\ rpc = "build"
    /\ loop = "idle"
    /\ cur = 0
    /\ waitset = {}
    /\ set_at = 0
    /\ cb = NoCallback
    /\ raised = ""
    /\ config = <<>>
    /\ pc = "sched"
    /\ err = NoErr
    /\ prdbs = <<>>
    /\ kibs = <<>>
    /\ bee_headers = <<>>
    /\ pos = 1
    /\ input_image = <<>>
    /\ image_base = W(0)
    /\ encrypted_data = <<>>
    /\ base_address = W(0)
    /\ offset = 0
    /\ steps = <<>>
    /\ calls = 0
    /\ ObjIdle

\* the steps of the thread that called run
RunStep ==
    \/ LoopAllFinished
    \/ LoopRunning
    \/ SetTaskStateStep
    \/ PickReady
    \/ StartStep
    \/ Submit
    \/ AddCallback
    \/ Store
    \/ Outer
    \/ Wait
    \/ WaitReturn

\* the steps of a callback in the thread of the executor
CallbackStep == CallbackPop \/ CallbackFinish

NextSched ==
    \/ \E t \in TaskPool : AppendTask(t)
    \/ \E l \in ListsWithout[NamesOf(tasks)] : ExtendList(l)
    \/ \E i \in 1..Len(tasks) : ResetTask(i)
    \/ \E n \in 1..MaxRuns : Run(n)
    \/ LoopAllFinished
    \/ LoopRunning
    \/ SetTaskStateStep
    \/ SetTaskStateDuringFinish
    \/ PickReady
    \/ StartStep
    \/ Submit
    \/ AddCallback
    \/ Store
    \/ Outer
    \/ Wait
    \/ WaitReturn
    \/ \E i \in 1..Cardinality(TaskNames) : Complete(i)
    \/ CallbackPop
    \/ CallbackFinish

SpecSched == InitSched /\ [][NextSched]_vars

\* The thread of run keeps running, every submitted method completes, and the
\* executor's thread runs every callback it has called to its end.
FairSched ==
    /\ SpecSched
    /\ WF_vars(RunStep)
    /\ WF_vars(CallbackStep)
    /\ \A i \in 1..Cardinality(TaskNames) : WF_vars(Complete(i))

RECURSIVE Dependencies(_, _)

\* The tasks of the list that task i depends on, directly or through other tasks.
Dependencies(ts, i) ==
    UNION { IF TaskIndex(ts, ts[i].dependencies[k]) = 0 THEN {}
            ELSE {TaskIndex(ts, ts[i].dependencies[k])}
                 \cup Dependencies(ts, TaskIndex(ts, ts[i].dependencies[k])) :
            k \in 1..Len(ts[i].dependencies) }

\* Every dependency names a task of the list.
DependenciesExist(ts) ==
    \A i \in 1..Len(ts) :
        \A k \in 1..Len(ts[i].dependencies) : TaskIndex(ts, ts[i].dependencies[k]) # 0

\* Task i is moved to RUNNING by this step.
Started(i) == tasks[i].status # "RUNNING" /\ tasks'[i].status = "RUNNING"

\* C27: a task is started only when every task it depends on, directly or through
\* other tasks, has PASSED; a task that does not inherit failure may also be started
\* when one of them has FAILED.
StartedAfterDependencies ==
    [][\A i \in 1..Len(tasks) :
          Started(i) =>
              \/ \A d \in Dependencies(tasks, i) : tasks'[d].status = "PASSED"
              \/ /\ ~tasks[i].inherit_failure
                 /\ \E d \in Dependencies(tasks, i) : tasks'[d].status = "FAILED"]_vars

\* C28: once run is entered, the number of RUNNING tasks never exceeds
\* concurrent_runs, however the completions and the steps of the done callbacks fall
\* between the steps of the scheduling loops.
RunningWithinLimit ==
    (pc = "sched" /\ rpc # "build") => RunningTasks(tasks) <= concurrent_runs

\* The limit is met with a task left waiting: run is at the head of a scheduling
\* loop, as many tasks are RUNNING as allowed, another one is READY, and a done
\* callback has already finished a task.
RunningAtLimitSeen ==
    /\ pc = "sched"
    /\ rpc = "loop"
    /\ RunningTasks(tasks) = concurrent_runs
    /\ \E i \in 1..Len(tasks) : tasks[i].status = "READY"
    /\ \E i \in 1..Len(tasks) : tasks[i].status \in {"PASSED", "FAILED"}

\* Task i inherits failure and a task it depends on, directly or through other
\* tasks, has FAILED.
FailureToInherit(ts, i) ==
    /\ ts[i].inherit_failure
    /\ \E d \in Dependencies(ts, i) : ts[d].status = "FAILED"

\* This step is the one in which run returns (line 315 finds every task finished).
RunReturns == pc = "sched" /\ rpc = "outer" /\ rpc' = "done"

\* When run returns, every task that has a failure to inherit is FAILED with an
\* exception and was never submitted.
FailureInherited ==
    RunReturns =>
        \A i \in 1..Len(tasks') :
            FailureToInherit(tasks', i) =>
                /\ tasks'[i].status = "FAILED"
                /\ tasks'[i].exception
                /\ future'[i].state = "none"

\* This step is a call of reset by the owner of the list, outside run.
ResetCalled == \E j \in 1..Len(tasks) : ResetTask(j)

\* No step starts a task that has a failure to inherit, no step but a call of reset
\* takes a task that is RUNNING, PASSED or FAILED back to READY or BLOCKED, and no
\* task is submitted a second time.
NoStartNoReset ==
    \A i \in 1..Len(tasks) :
        /\ Started(i) => ~FailureToInherit(tasks', i)
        /\ (/\ tasks[i].status \in {"RUNNING", "PASSED", "FAILED"}
            /\ tasks'[i].status \in {"READY", "BLOCKED"}) => ResetCalled
        /\ Started(i) => future[i].state = "none"

\* C29: a task that inherits failure and has a FAILED dependency, direct or through
\* other tasks, ends FAILED with an exception and is never started; the scheduler
\* takes no task from RUNNING, PASSED or FAILED back to READY or BLOCKED, so none is
\* started twice.
InheritedFailureNeverStarted == [][FailureInherited /\ NoStartNoReset]_vars

\* run is entered on a list whose dependencies all name tasks of the list.
RunEntered == pc = "sched" /\ rpc = "loop" /\ loop = "first" /\ DependenciesExist(tasks)

\* C30: with the thread of run running, every submitted method completing and every
\* callback run to its end, run entered on a list whose dependencies exist
\* eventually returns with every task PASSED or FAILED.
RunTerminates == RunEntered ~> (rpc = "done" /\ AllFinished(tasks))

====
